---- MODULE Spec2Model ----
(***************************************************************************)
(* A model of src/src/entry.js: the Entry record of a module, its getter   *)
(* and setter tables, the namespace views, and the live-binding            *)
(* propagation of Entry.updateBindings.                                    *)
(*                                                                         *)
(* The state is one record per module (the fields of Entry that the        *)
(* modelled methods read or write).  Methods are operators from a context  *)
(* (the records, plus what a running call carries: the seen set, the       *)
(* parents map, a thrown error) to the context after the call; each action *)
(* of the host applies one method completely, recursive calls included.    *)
(***************************************************************************)
EXTENDS Integers, Sequences, FiniteSets, TLC

\* Number of distinct ordinary values a module body may store in a variable.
MaxVal == 2

\* The modules of the graph, the export names and the local variable names.
Mods == {"A", "B", "C", "D"}
Names == {"x", "default"}
SetterNames == Names \cup {"*"}
LocalNames == {"u", "v", "w"}

-----------------------------------------------------------------------------
(* Values.  Every JavaScript value the model handles is a record of the    *)
(* same shape, so that Object.is is plain equality.                        *)

Val(n) == [k |-> "value", n |-> n, m |-> "-"]
Values == {Val(n) : n \in 1..MaxVal}
Undefined == [k |-> "undefined", n |-> 0, m |-> "-"]
\* A property that is not there (not a JavaScript value: reading it gives Undefined).
Absent == [k |-> "absent", n |-> 0, m |-> "-"]
\* An object known by its role and the module it belongs to.
ObjectOf(role, e) == [k |-> role, n |-> 0, m |-> e]

ERROR_GETTER == [k |-> "ERROR_GETTER", n |-> 0, m |-> "-"]
ERROR_STAR == [k |-> "ERROR_STAR", n |-> 0, m |-> "-"]
INITIAL_VALUE == [k |-> "INITIAL_VALUE", n |-> 0, m |-> "-"]

LOAD_INCOMPLETE == "LOAD_INCOMPLETE"
LOAD_INDETERMINATE == "LOAD_INDETERMINATE"
LOAD_COMPLETED == "LOAD_COMPLETED"
NAMESPACE_FINALIZATION_COMPLETED == "NAMESPACE_FINALIZATION_COMPLETED"
NAMESPACE_FINALIZATION_INCOMPLETE == "NAMESPACE_FINALIZATION_INCOMPLETE"
SETTER_TYPE_DYNAMIC_IMPORT == "SETTER_TYPE_DYNAMIC_IMPORT"
SETTER_TYPE_EXPORT_FROM == "SETTER_TYPE_EXPORT_FROM"
SETTER_TYPE_NAMESPACE == "SETTER_TYPE_NAMESPACE"
SETTER_TYPE_STATIC_IMPORT == "SETTER_TYPE_STATIC_IMPORT"
TYPE_CJS == "TYPE_CJS"
TYPE_ESM == "TYPE_ESM"
TYPE_PSEUDO == "TYPE_PSEUDO"
TYPE_WASM == "TYPE_WASM"
\* The execution states, which the code compares with <.
STATE_INITIAL == 0
STATE_EXECUTION_STARTED == 1
STATE_EXECUTION_COMPLETED == 2
UPDATE_TYPE_DEFAULT == "UPDATE_TYPE_DEFAULT"
UPDATE_TYPE_INIT == "UPDATE_TYPE_INIT"
UPDATE_TYPE_LIVE == "UPDATE_TYPE_LIVE"

\* Errors a call can end with.
NoError == "none"
ERR_EXPORT_STAR_CONFLICT == "ERR_EXPORT_STAR_CONFLICT"
ERR_UNDEFINED_IDENTIFIER == "ERR_UNDEFINED_IDENTIFIER"
\* What a getter of the module's own code threw (or the TypeError of calling
\* a getter that is not there).
GetterException == "GetterException"
\* for (const name of null)
TypeError == "TypeError"
ERR_NS_ASSIGNMENT == "ERR_NS_ASSIGNMENT"
ERR_NS_DEFINITION == "ERR_NS_DEFINITION"
ERR_NS_DELETION == "ERR_NS_DELETION"
ERR_NS_EXTENSION == "ERR_NS_EXTENSION"
ERR_NS_REDEFINITION == "ERR_NS_REDEFINITION"

\* The four raw namespace containers behind the four views.
CompleteMutable == "_completeMutableNamespace"
Complete == "_completeNamespace"
PartialMutable == "_partialMutableNamespace"
Partial == "_partialNamespace"
Views == {CompleteMutable, Complete, PartialMutable, Partial}

-----------------------------------------------------------------------------
(* Records.  A raw namespace container (raw) maps a name to the value of   *)
(* its property; the properties made by assignment are writable, and        *)
(* configurable until the container is sealed; those made by defineProperty *)
(* are neither (fixed).                                                     *)
(*                                                                          *)
(* Getters.  A getter is a function object; the model keeps what the       *)
(* function computes (kind, src, ref) and the properties entry.js stamps   *)
(* on it (id, owner, deferred).  "-" is a property that is not set.        *)

NoGetter == [kind |-> "none", src |-> "-", ref |-> "-", id |-> "-", owner |-> "-", deferred |-> FALSE]
\* () => <local variable ref of module e>: an export of the module's own code.
LocalGetter(e, var) == [NoGetter EXCEPT !.kind = "local", !.src = e, !.ref = var]
\* A getter of the module's own code that throws (a binding still in its dead zone).
ThrowingGetter == [NoGetter EXCEPT !.kind = "throw"]
\* () => ERROR_STAR: what the runtime installs for a name two export-stars disagree on.
StarGetter == [NoGetter EXCEPT !.kind = "star"]
\* () => entry.namespace[name]
NamespaceGetter(e, name) == [NoGetter EXCEPT !.kind = "namespace", !.src = e, !.ref = name]
\* () => otherEntry.completeNamespace
CompleteNamespaceGetter(other) == [NoGetter EXCEPT !.kind = "completeNamespace", !.src = other]
\* () => otherEntry.partialNamespace[importedName], with owner otherEntry
PartialNamespaceGetter(other, name) == [NoGetter EXCEPT !.kind = "partialNamespace", !.src = other, !.ref = name, !.owner = other]
\* () => otherEntry.getters[importedName](), with deferred, id and owner set
DeferredGetter(other, name) == [NoGetter EXCEPT !.kind = "deferred", !.src = other, !.ref = name, !.deferred = TRUE, !.id = name, !.owner = other]

\* A property of the raw namespace object _namespace.
NoProperty == [kind |-> "absent", value |-> Undefined]
\* get: () => this.exports[name], set: (value) => { this.exports[name] = value }
Accessor == [kind |-> "accessor", value |-> Undefined]
\* get: () => this.exports, set: function (value) { setProperty(this, name, value) }
AccessorWhole == [kind |-> "accessorWhole", value |-> Undefined]
DataProperty(v) == [kind |-> "data", value |-> v]

\* new Entry(mod), for a module of the given type, extension and package options.
NewEntry(type, circular, extname, cjs) ==
  [ type |-> type,
    circular |-> circular,
    extname |-> extname,
    cjs |-> cjs,
    builtin |-> FALSE,
    _changed |-> FALSE,
    _loaded |-> LOAD_INCOMPLETE,
    _namespaceFinalized |-> NAMESPACE_FINALIZATION_INCOMPLETE,
    moduleLoaded |-> FALSE,
    state |-> STATE_INITIAL,
    running |-> FALSE,
    runtime |-> "null",
    _finalize |-> FALSE,
    children |-> <<>>,
    getters |-> [n \in Names |-> NoGetter],
    getterKeys |-> <<>>,
    setters |-> [n \in SetterNames |-> <<>>],
    setterKeys |-> <<"*">>,
    importedBindings |-> [l \in LocalNames |-> "none"],
    locals |-> [l \in LocalNames |-> Undefined],
    exports |-> [n \in Names |-> Absent],
    exportsObject |-> TRUE,
    exportsProxied |-> FALSE,
    esModule |-> FALSE,
    moduleExports |-> Absent,
    _namespace |-> [n \in Names |-> NoProperty],
    namespaceProxy |-> (type = TYPE_CJS),
    raw |-> [w \in Views |-> [n \in Names |-> Absent]],
    fixed |-> [w \in Views |-> {}],
    sealed |-> [w \in Views |-> FALSE] ]

-----------------------------------------------------------------------------
(* Reading the namespace objects.                                          *)

\* The result of a call that may throw.
Return(v) == [thrown |-> NoError, v |-> v]
Throw(err) == [thrown |-> err, v |-> Undefined]

\* entry.exports: the raw exported object, or after loaded() of a CJS entry the
\* proxy proxyExports wraps it in.
exportsValue(en, e) == ObjectOf(IF en.exportsProxied THEN "exportsProxy" ELSE "exports", e)

\* Object.keys(entry._namespace): every property addGetter or runGetter made
\* is enumerable.
namespaceKeys(en) == {n \in Names : en._namespace[n].kind # "absent"}

\* Object.keys(entry.exports)
exportsKeys(en) == {n \in Names : en.exports[n] # Absent}

\* object[name] on the raw exported object.
exportsGet(en, name) == IF en.exports[name] = Absent THEN Undefined ELSE en.exports[name]

\* Reflect.get(entry._namespace, name): the accessors addGetter defines read
\* the raw exported object.
rawNamespaceGet(en, e, name) ==
  LET p == en._namespace[name]
  IN CASE p.kind = "accessor" -> exportsGet(en, name)
       [] p.kind = "accessorWhole" -> exportsValue(en, e)
       [] p.kind = "data" -> p.value
       [] OTHER -> Undefined

\* entry.namespace[name]: entry.namespace is _namespace, or for a CJS entry the
\* proxy the deferred `type` property makes.
namespaceGet(en, e, name) ==
  IF en.namespaceProxy
  THEN IF name = "default" THEN exportsValue(en, e)
       ELSE IF en._namespace[name].kind # "absent" THEN exportsGet(en, name)
       ELSE Undefined
  ELSE rawNamespaceGet(en, e, name)

\* How deep a chain of getters calling getters may go before the call stack
\* overflows (which throws, like any other failure of a getter).
GetterFuel == Cardinality(Mods) * Cardinality(Names)

\* The descriptor of a property of a raw view container is configurable until
\* the container is sealed and stays writable.
isUpdatableGet(en, view, name) ==
  LET configurable == ~en.sealed[view] /\ name \notin en.fixed[view]
      writable == name \notin en.fixed[view]
  IN en.raw[view][name] = Absent \/ configurable \/ writable

RECURSIVE callGetter(_, _, _)
RECURSIVE commonGet(_, _, _, _, _)

\* getter(): the value the getter returns, or what it throws.
callGetter(st, g, fuel) ==
  CASE g.kind = "local" -> Return(st[g.src].locals[g.ref])
    [] g.kind = "star" -> Return(ERROR_STAR)
    [] g.kind = "namespace" -> Return(namespaceGet(st[g.src], g.src, g.ref))
    [] g.kind = "completeNamespace" -> Return(ObjectOf("completeNamespace", g.src))
    [] g.kind = "partialNamespace" ->
         IF fuel = 0 THEN Throw(GetterException)
         ELSE commonGet(st, g.src, Partial, g.ref, fuel - 1)
    [] g.kind = "deferred" ->
         IF fuel = 0 THEN Throw(GetterException)
         ELSE callGetter(st, st[g.src].getters[g.ref], fuel - 1)
    [] g.kind = "none" -> Throw(TypeError)
    [] OTHER -> Throw(GetterException)

\* Whether handler.get calls the getter of the name (lines 725-728).
callsGetter(en, name) ==
  /\ en.type = TYPE_ESM
  /\ en._namespaceFinalized = NAMESPACE_FINALIZATION_COMPLETED
  /\ en.getters[name] # NoGetter

\* handler.get after the call of the getter, which gave `called` (lines 729-753).
commonGetResult(en, e, view, name, called) ==
  LET isESM == en.type = TYPE_ESM
      unfinalized == en._namespaceFinalized # NAMESPACE_FINALIZATION_COMPLETED
      errored == IF isESM /\ ~unfinalized
                 THEN en.getters[name] = NoGetter \/ called.v = ERROR_GETTER
                 ELSE unfinalized
  IN IF called.thrown # NoError THEN called
     ELSE IF errored /\ en.raw[view][name] # Absent THEN Throw(ERR_UNDEFINED_IDENTIFIER)
     ELSE IF ~isESM /\ name = "default" /\ view \in {PartialMutable, Partial}
     THEN Return(exportsValue(en, e))
     ELSE Return(namespaceGet(en, e, name))

\* handler.get of assignCommonNamespaceHandlerTraps, on the view over the raw
\* container `view` of entry e.
commonGet(st, e, view, name, fuel) ==
  commonGetResult(st[e], e, view, name,
                  IF callsGetter(st[e], name) THEN callGetter(st, st[e].getters[name], fuel)
                  ELSE Return(Undefined))

\* The wrapper assignMutableNamespaceHandlerTraps puts around handler.get, the
\* common trap having given newValue.
mutableGetResult(en, view, name, newValue) ==
  LET held == en.raw[view][name]
      value == IF held = Absent THEN Undefined ELSE held
  IN IF view \in {Complete, Partial} \/ newValue.thrown # NoError THEN newValue
     ELSE IF (value = INITIAL_VALUE \/ newValue.v # value) /\ isUpdatableGet(en, view, name)
     THEN newValue
     ELSE Return(value)

\* handler.get of a view: the common trap, wrapped for the two mutable views.
handlerGet(st, e, view, name) ==
  mutableGetResult(st[e], view, name, commonGet(st, e, view, name, GetterFuel))

\* A tryGetter without its catch.
uncaught(r) == r

\* The catch of tryGetter.
caught(r) == IF r.thrown # NoError THEN Return(ERROR_GETTER) ELSE r

\* tryGetter(getter): the call, with whatever it throws turned into ERROR_GETTER.
tryGetter(st, g) == caught(callGetter(st, g, GetterFuel))

-----------------------------------------------------------------------------
(* Writing through the readonly namespace views.                           *)

\* A property descriptor carrying a value: { value }.
ValueDescriptor(v) == [hasValue |-> TRUE, value |-> v, writable |-> "absent"]

\* The result of a trap: the records it leaves, what it returns, what it throws.
Result(st, v, thrown) == [st |-> st, v |-> v, thrown |-> thrown]

\* Reflect.has(namespace, name) on the raw container of a view.
rawHas(en, view, name) == en.raw[view][name] # Absent

\* Reflect.ownKeys(view): the handler has no ownKeys trap, the keys are those
\* of the raw container.
ownKeys(en, view) == {n \in Names : rawHas(en, view, n)}

\* Whether Reflect.defineProperty(namespace, name, descriptor) succeeds on the
\* raw container of a view.
rawDefinable(en, view, name, descriptor) ==
  IF ~rawHas(en, view, name) THEN ~en.sealed[view]
  ELSE \/ name \notin en.fixed[view]
       \/ ~descriptor.hasValue
       \/ descriptor.value = en.raw[view][name]

\* The container after a Reflect.defineProperty that succeeds.
rawDefine(en, view, name, descriptor) ==
  [en EXCEPT !.raw[view][name] = IF descriptor.hasValue THEN descriptor.value
                                 ELSE IF @ = Absent THEN Undefined ELSE @,
             !.fixed[view] = IF rawHas(en, view, name) /\ descriptor.writable # "false"
                             THEN @ ELSE @ \cup {name}]

\* handler.defineProperty of assignImmutableNamespaceHandlerTraps.
immutableDefineProperty(st, e, view, name, descriptor, strict) ==
  LET en == st[e]
      noop == descriptor.writable = "false" /\ ~descriptor.hasValue /\ rawHas(en, view, name)
  IN IF /\ en._namespaceFinalized = NAMESPACE_FINALIZATION_COMPLETED
        /\ ~noop
        /\ rawDefinable(en, view, name, descriptor)
     THEN Result([st EXCEPT ![e] = rawDefine(en, view, name, descriptor)],
                 \/ (name \in DOMAIN en.importedBindings /\ en.importedBindings[name] # "none")
                 \/ (~descriptor.hasValue \/ descriptor.value = Undefined),
                 NoError)
     ELSE IF ~strict THEN Result(st, FALSE, NoError)
     ELSE IF rawHas(en, view, name) THEN Result(st, FALSE, ERR_NS_REDEFINITION)
     ELSE Result(st, FALSE, ERR_NS_DEFINITION)

\* handler.deleteProperty of assignImmutableNamespaceHandlerTraps.
immutableDeleteProperty(st, e, view, name, strict) ==
  LET en == st[e]
  IN IF ~rawHas(en, view, name) THEN Result(st, TRUE, NoError)
     ELSE IF ~en.sealed[view] /\ name \notin en.fixed[view]
     THEN Result([st EXCEPT ![e].raw[view][name] = Absent], TRUE, NoError)
     ELSE IF ~strict THEN Result(st, FALSE, NoError)
     ELSE Result(st, FALSE, ERR_NS_DELETION)

\* handler.set of assignImmutableNamespaceHandlerTraps.
immutableSet(st, e, view, name, strict) ==
  IF ~strict THEN Result(st, FALSE, NoError)
  ELSE IF rawHas(st[e], view, name) THEN Result(st, FALSE, ERR_NS_ASSIGNMENT)
  ELSE Result(st, FALSE, ERR_NS_EXTENSION)

-----------------------------------------------------------------------------
(* Registration.                                                           *)

InSeq(x, s) == \E i \in 1..Len(s) : s[i] = x
AppendNew(s, x) == IF InSeq(x, s) THEN s ELSE Append(s, x)

\* entry.addGetter(name, getter)
addGetter(st, e, name, getter) ==
  LET en == st[e]
      g == [getter EXCEPT !.id = IF @ = "-" THEN name ELSE @,
                          !.owner = IF @ = "-" THEN e ELSE @]
      descriptor == IF name = "default" /\ en.type = TYPE_CJS THEN AccessorWhole ELSE Accessor
  IN [st EXCEPT ![e].getters[name] = g,
                ![e].getterKeys = AppendNew(@, name),
                ![e]._namespace[name] = descriptor]

\* entry.addGetterFrom(otherEntry, importedName, exportedName)
addGetterFrom(st, e, other, importedName, exportedName) ==
  IF importedName = "*"
  THEN addGetter(st, e, exportedName, CompleteNamespaceGetter(other))
  ELSE LET found == st[other].getters[importedName]
           otherGetter == IF st[other].type # TYPE_ESM /\ st[e].extname = ".mjs"
                          THEN PartialNamespaceGetter(other, importedName)
                          ELSE found
       IN addGetter(st, e, exportedName,
                    IF otherGetter = NoGetter THEN DeferredGetter(other, importedName)
                    ELSE otherGetter)

\* A setter function as the runtime hands it to addSetter: its type ("-" when
\* it carries none) and what its callback reports.
SetterFunction(type, result) ==
  [type |-> type, result |-> result, last |-> INITIAL_VALUE, localNames |-> {}, parent |-> "-"]

\* entry.addSetter(name, localNames, setter, parentEntry)
addSetter(st, e, name, localNames, setter, parentEntry) ==
  LET s == [setter EXCEPT !.last = INITIAL_VALUE,
                          !.localNames = localNames,
                          !.parent = parentEntry,
                          !.type = IF @ = "-" THEN SETTER_TYPE_STATIC_IMPORT ELSE @]
      st1 == [st EXCEPT ![e].setters[name] = Append(@, s),
                        ![e].setterKeys = AppendNew(@, name)]
  IN [st1 EXCEPT ![parentEntry].importedBindings =
        [l \in LocalNames |-> IF l \in localNames /\ @[l] = "none" THEN "false" ELSE @[l]]]

-----------------------------------------------------------------------------
(* The loaded state and the finalization of the namespace.                 *)

\* The changed names an updateBindings call is given: undefined (omitted),
\* null, or an array (a single string is made a one-element array).
NamesUndefined == [k |-> "undefined", list |-> <<>>]
NamesNull == [k |-> "null", list |-> <<>>]
NamesList(list) == [k |-> "list", list |-> list]

\* The order in which the keys of an object are listed.
KeyOrder == <<"x", "default">>
RECURSIVE KeysFrom(_, _)
KeysFrom(set, i) ==
  IF i > Len(KeyOrder) THEN <<>>
  ELSE (IF KeyOrder[i] \in set THEN <<KeyOrder[i]>> ELSE <<>>) \o KeysFrom(set, i + 1)
Keys(set) == KeysFrom(set, 1)

\* getExportsObjectKeys(entry): the own names of the raw exported object,
\* without the non-enumerable __esModule marker.
getExportsObjectKeys(en) == Keys(exportsKeys(en))

RECURSIVE addMissingGetters(_, _, _, _)
\* The loop of assignExportsToNamespace over names[i..].
addMissingGetters(st, e, names, i) ==
  IF i > Len(names) THEN st
  ELSE LET name == names[i]
           isCJS == st[e].type = TYPE_CJS
           next == IF ~(isCJS /\ name = "default") /\ st[e].getters[name] = NoGetter
                   THEN addGetter(st, e, name, NamespaceGetter(e, name))
                   ELSE st
       IN addMissingGetters(next, e, names, i + 1)

\* entry.assignExportsToNamespace(names): the records after it and what it throws.
assignExportsToNamespace(st, e, names) ==
  LET en == st[e]
      list == IF names.k = "undefined"
              THEN IF en._loaded = LOAD_COMPLETED THEN Keys(namespaceKeys(en))
                   ELSE getExportsObjectKeys(en)
              ELSE names.list
  IN IF ~en.exportsObject THEN [st |-> st, thrown |-> NoError]
     ELSE IF names.k = "null" THEN [st |-> st, thrown |-> TypeError]
     ELSE [st |-> addMissingGetters(st, e, list, 1), thrown |-> NoError]

\* A finalizeNamespace that populates the views on every call.
populatesAgain(en) == FALSE

\* The early return of finalizeNamespace (lines 448-450).
alreadyFinalized(en) == en._namespaceFinalized = NAMESPACE_FINALIZATION_COMPLETED

\* entry.finalizeNamespace()
finalizeNamespace(st, e) ==
  LET en == st[e]
      names == namespaceKeys(en)
      partialNames == IF en.builtin THEN exportsKeys(en) \cup {"default"} ELSE {"default"}
      fill(container, set) == [n \in Names |-> IF n \in set THEN INITIAL_VALUE ELSE container[n]]
  IN IF alreadyFinalized(en) THEN st
     ELSE [st EXCEPT
       ![e]._namespaceFinalized = NAMESPACE_FINALIZATION_COMPLETED,
       ![e].raw = [w \in Views |->
          CASE w \in {CompleteMutable, Complete} -> fill(@[w], names)
            [] OTHER -> IF en.type # TYPE_ESM THEN fill(@[w], partialNames) ELSE @[w]],
       ![e].sealed = [w \in Views |->
          CASE w = Complete -> TRUE
            [] w = Partial -> en.type # TYPE_ESM \/ @[w]
            [] OTHER -> @[w]]]

\* A loaded() that does not look at the children.
noChildLooked(st, e) == FALSE

\* Whether some child's module has not finished loading (the loop of loaded()).
someChildNotLoaded(st, e) ==
  \E i \in 1..Len(st[e].children) : ~st[st[e].children[i]].moduleLoaded

\* A test of the names that never finds `default` alone.
neverOnlyDefault(names) == FALSE

\* names.length === 1 && names[0] === "default" (lines 531-532)
onlyDefault(names) == names = <<"default">>

\* entry.loaded(): the records after the call (the value returned is the
\* _loaded field).
loaded(st, e) ==
  LET en == st[e]
  IN IF en._loaded # LOAD_INCOMPLETE THEN st
     ELSE IF ~en.moduleLoaded THEN st
     ELSE IF someChildNotLoaded(st, e) THEN st
     ELSE IF en.type \in {TYPE_ESM, TYPE_WASM}
     THEN LET names == getExportsObjectKeys(en)
              s1 == [st EXCEPT ![e]._loaded = LOAD_COMPLETED, ![e].namespaceProxy = FALSE]
              s2 == assignExportsToNamespace(s1, e, NamesList(names)).st
              s3 == IF en.cjs.interop /\ en.extname # ".mjs"
                    THEN IF onlyDefault(names)
                         THEN [s2 EXCEPT ![e].moduleExports = exportsGet(en, "default")]
                         ELSE [s2 EXCEPT ![e].esModule = TRUE]
                    ELSE s2
          IN finalizeNamespace(s3, e)
     ELSE LET names == getExportsObjectKeys(en)
              pseudo == en.esModule /\ en.type = TYPE_CJS /\ en.cjs.interop
              s1 == [st EXCEPT ![e]._loaded = LOAD_COMPLETED,
                               ![e].namespaceProxy = IF pseudo THEN FALSE ELSE @,
                               ![e].type = IF pseudo THEN TYPE_PSEUDO ELSE @]
              s2 == IF s1[e].type = TYPE_CJS
                    THEN [(IF s1[e].getters["default"] = NoGetter
                           THEN addGetter(s1, e, "default", NamespaceGetter(e, "default"))
                           ELSE s1) EXCEPT ![e].exportsProxied = TRUE]
                    ELSE s1
              s3 == assignExportsToNamespace(s2, e, NamesList(names)).st
          IN finalizeNamespace(s3, e)

-----------------------------------------------------------------------------
(* The propagation of bindings: Entry.updateBindings.                      *)

\* What a running updateBindings call tree carries: the records, the seen set
\* shared by the whole tree, the parents map of the call whose setters are
\* running, an error on its way up, and the record of what happened (trace: the
\* calls in order; fired: the setter callbacks invoked, in order; recursive:
\* the calls made on parents, with their arguments, in order).
Context(st) ==
  [ st |-> st, seen |-> {}, parents |-> <<>>, thrown |-> NoError, thrownAt |-> <<>>,
    trace |-> <<>>, fired |-> <<>>, recursive |-> <<>>, overrun |-> FALSE ]

\* _namespace[name] = value: through the accessor addGetter defined, or making
\* a plain property.
namespaceSet(st, e, name, value) ==
  IF st[e]._namespace[name].kind = "accessor"
  THEN [st EXCEPT ![e].exports[name] = value]
  ELSE [st EXCEPT ![e]._namespace[name] = DataProperty(value)]

\* The records a step leaves, and what it threw.
Step(st, thrown) == [st |-> st, thrown |-> thrown]

\* runGetter(entry, name), tryGetter having given `got` (lines 1074-1080).
storeValue(st, e, name, got) ==
  IF got.thrown # NoError THEN Step(st, got.thrown)
  ELSE IF got.v = ERROR_STAR
  THEN Step([st EXCEPT ![e]._namespace[name] = NoProperty], NoError)
  ELSE IF st[e]._namespace[name].kind = "absent" \/ rawNamespaceGet(st[e], e, name) # got.v
  THEN Step(namespaceSet([st EXCEPT ![e]._changed = TRUE], e, name, got.v), NoError)
  ELSE Step(st, NoError)

\* runGetter(entry, name)
runGetter(st, e, name) == storeValue(st, e, name, tryGetter(st, st[e].getters[name]))

RECURSIVE runGetterList(_, _, _, _)
\* The loop of runGetters over names[i..].
runGetterList(r, e, names, i) ==
  IF i > Len(names) \/ r.thrown # NoError THEN r
  ELSE runGetterList(runGetter(r.st, e, names[i]), e, names, i + 1)

\* The context after a step that gave the records r.st or threw r.thrown.
After(cx, e, r) ==
  [cx EXCEPT !.st = r.st, !.thrown = r.thrown,
             !.thrownAt = IF r.thrown = NoError THEN @ ELSE <<e, "-">>]

\* runGetters(entry, names)
runGetters(cx, e, names) ==
  LET en == cx.st[e]
  IN IF en.type = TYPE_ESM
     THEN After(cx, e, runGetterList(Step(cx.st, NoError), e,
                                     IF names.k = "list" THEN names.list ELSE en.getterKeys, 1))
     ELSE IF en.moduleLoaded
     THEN After(cx, e, assignExportsToNamespace(cx.st, e, names))
     ELSE cx

\* A choice of namespace object that never gives a partial view.
alwaysComplete(noNamedExports, noMutableNamespace, e) ==
  IF noMutableNamespace THEN ObjectOf("completeNamespace", e)
  ELSE ObjectOf("completeMutableNamespace", e)

\* The namespace object getExportByName and getExportByNameFast give for "*".
namespaceObject(noNamedExports, noMutableNamespace, e) ==
  IF noMutableNamespace
  THEN (IF noNamedExports THEN ObjectOf("partialNamespace", e)
        ELSE ObjectOf("completeNamespace", e))
  ELSE (IF noNamedExports THEN ObjectOf("partialMutableNamespace", e)
        ELSE ObjectOf("completeMutableNamespace", e))

\* A getExportByName without the whole-exports fallback for `default`.
getExportByNameNoFallback(st, e, name, parentEntry, got) ==
  LET en == st[e]
      parent == st[parentEntry]
      parentIsMJS == parent.extname = ".mjs"
      parentNamedExports == ~parentIsMJS /\ parent.cjs.namedExports
      noNamedExports == ~parentNamedExports /\ en.type # TYPE_ESM
      parentMutableNamespace == ~parentIsMJS /\ parent.cjs.mutableNamespace
      noMutableNamespace == ~parentMutableNamespace \/ en.extname = ".mjs"
  IN IF name # "*" THEN got
     ELSE Return(namespaceObject(noNamedExports, noMutableNamespace, e))

\* getExportByName(entry, name, parentEntry), the lookup of the getter (done
\* by both functions alike) having given `got`.
getExportByName(st, e, name, parentEntry, got) ==
  LET en == st[e]
      parent == st[parentEntry]
      parentIsMJS == parent.extname = ".mjs"
      parentNamedExports == ~parentIsMJS /\ parent.cjs.namedExports
      noNamedExports == ~parentNamedExports /\ en.type # TYPE_ESM
      parentMutableNamespace == ~parentIsMJS /\ parent.cjs.mutableNamespace
      noMutableNamespace == ~parentMutableNamespace \/ en.extname = ".mjs"
  IN IF noNamedExports /\ name = "default" THEN Return(exportsValue(en, e))
     ELSE IF name # "*" THEN got
     ELSE Return(namespaceObject(noNamedExports, noMutableNamespace, e))

\* getExportByNameFast(entry, name, parentEntry), likewise.
getExportByNameFast(st, e, name, parentEntry, got) ==
  LET parent == st[parentEntry]
      parentMutableNamespace == parent.extname # ".mjs" /\ parent.cjs.mutableNamespace
      noMutableNamespace == ~parentMutableNamespace \/ st[e].extname = ".mjs"
  IN IF name # "*" THEN got
     ELSE Return(namespaceObject(FALSE, noMutableNamespace, e))

\* The lookup both getExportByName and getExportByNameFast make for a name
\* other than "*".
getterValue(st, e, name) ==
  IF name = "*" THEN Return(Undefined)
  ELSE IF st[e].getters[name] # NoGetter THEN tryGetter(st, st[e].getters[name])
  ELSE Return(ERROR_GETTER)

\* The value runSetter resolves for a setter (lines 1113-1115).
resolve(st, e, name, parentEntry, isESM) ==
  IF isESM THEN getExportByNameFast(st, e, name, parentEntry, getterValue(st, e, name))
  ELSE getExportByName(st, e, name, parentEntry, getterValue(st, e, name))

\* The value handed to the setter callback (line 1139).
setterValue(value) == IF value = ERROR_GETTER THEN Undefined ELSE value

\* setter(setterValue, entry): the callback of an import assigns the value to
\* the importer's local variables; what it returns is the setter's `result`.
callSetter(st, setter, value) ==
  [st EXCEPT ![setter.parent].locals =
     [l \in LocalNames |-> IF l \in setter.localNames THEN value ELSE @[l]]]

\* A runSetter that invokes a setter only the first time.
setterFiresFirstOnly(setter, value, isLoaded, isNsChanged, updateType) ==
  setter.last = INITIAL_VALUE

\* A runSetter that invokes every setter on every call.
setterFiresAlways(setter, value, isLoaded, isNsChanged, updateType) == TRUE

\* Whether runSetter invokes the setter (lines 1126-1136).
setterFires(setter, value, isLoaded, isNsChanged, updateType) ==
  LET changed == setter.type # SETTER_TYPE_DYNAMIC_IMPORT /\ setter.last # value
      isDynamicImport == isLoaded /\ setter.type = SETTER_TYPE_DYNAMIC_IMPORT
      isExportFrom == setter.type = SETTER_TYPE_EXPORT_FROM
      isExportNs == isNsChanged /\ setter.type = SETTER_TYPE_NAMESPACE
      isInit == updateType = UPDATE_TYPE_INIT
  IN changed \/ isDynamicImport \/ isExportFrom \/ isExportNs \/ isInit

\* A callback that marks the bindings whatever the setter observed.
setterCallbackMarksAll(cx, setter, shouldUpdate) ==
  [cx EXCEPT
     !.st[setter.parent].importedBindings =
        [l \in LocalNames |-> IF l \in setter.localNames THEN "true" ELSE @[l]],
     !.parents = IF shouldUpdate THEN AppendNew(@, setter.parent) ELSE @]

\* The callback updateBindings passes to runSetters (lines 625-642).
setterCallback(cx, setter, shouldUpdate) ==
  [cx EXCEPT
     !.st[setter.parent].importedBindings =
        [l \in LocalNames |->
           IF setter.last # ERROR_GETTER /\ l \in setter.localNames THEN "true" ELSE @[l]],
     !.parents = IF shouldUpdate THEN AppendNew(@, setter.parent) ELSE @]

\* A splice that removes nothing.
SpliceNothing(seq, i) == seq

\* splice(i, 1)
Splice(seq, i) == SubSeq(seq, 1, i - 1) \o SubSeq(seq, i + 1, Len(seq))

\* What runSetter does with a setter it invokes (lines 1138-1152); run carries
\* the flags of the call.
invoke(cx, e, name, i, setter, value, run) ==
  LET changed == setter.type # SETTER_TYPE_DYNAMIC_IMPORT /\ setter.last # value
      isDynamicImport == run.isLoaded /\ setter.type = SETTER_TYPE_DYNAMIC_IMPORT
      isExportFrom == setter.type = SETTER_TYPE_EXPORT_FROM
      fired == [setter EXCEPT !.last = value]
      called == [cx EXCEPT
                   !.st = callSetter(
                            [cx.st EXCEPT ![e].setters[name] =
                               IF fired.result /\ isDynamicImport THEN Splice(@, i)
                               ELSE [@ EXCEPT ![i] = fired]],
                            fired, setterValue(value)),
                   !.fired = Append(@, [entry |-> e, name |-> name, setter |-> setter,
                                        value |-> value, argument |-> setterValue(value),
                                        isNsChanged |-> run.isNsChanged,
                                        updateType |-> run.updateType,
                                        index |-> i, at |-> Len(cx.trace),
                                        st |-> cx.st])]
  IN IF ~fired.result /\ isExportFrom /\ ~changed THEN called
     ELSE setterCallback(called, fired, run.shouldUpdateParents)

RECURSIVE runSetterLoop(_, _, _, _, _)

\* One round of the while loop of runSetter: the setter at index i, for which
\* the lookup gave `got`.
runSetterAt(cx, e, name, i, run, setter, got) ==
  IF got.thrown # NoError
  THEN [cx EXCEPT !.thrown = got.thrown, !.thrownAt = <<e, name>>]
  ELSE IF got.v = ERROR_STAR
  THEN [cx EXCEPT !.st[e].setters[name] = Splice(@, i),
                  !.thrown = ERR_EXPORT_STAR_CONFLICT,
                  !.thrownAt = <<e, name>>]
  ELSE runSetterLoop(IF setterFires(setter, got.v, run.isLoaded, run.isNsChanged, run.updateType)
                     THEN invoke(cx, e, name, i, setter, got.v, run)
                     ELSE cx,
                     e, name, i - 1, run)

\* The while loop of runSetter, at index i (1-based) of entry.setters[name].
runSetterLoop(cx, e, name, i, run) ==
  IF i = 0 THEN cx
  ELSE runSetterAt(cx, e, name, i, run, cx.st[e].setters[name][i],
                   resolve(cx.st, e, name, cx.st[e].setters[name][i].parent, run.isESM))

\* A runSetter whose loop starts below the last setter.
runSetterBelowLast(cx, e, name, run) ==
  LET en == cx.st[e]
  IN runSetterLoop(cx, e, name, IF Len(en.setters[name]) = 0 THEN 0 ELSE Len(en.setters[name]) - 1,
                   [run EXCEPT !.isESM = en.type = TYPE_ESM,
                               !.isLoaded = en._loaded = LOAD_COMPLETED,
                               !.isNsChanged = en._changed])

\* runSetter(entry, name, callback, updateType)
runSetter(cx, e, name, run) ==
  LET en == cx.st[e]
  IN runSetterLoop(cx, e, name, Len(en.setters[name]),
                   [run EXCEPT !.isESM = en.type = TYPE_ESM,
                               !.isLoaded = en._loaded = LOAD_COMPLETED,
                               !.isNsChanged = en._changed])

RECURSIVE runSetterList(_, _, _, _, _)
runSetterList(cx, e, names, i, run) ==
  IF i > Len(names) \/ cx.thrown # NoError THEN cx
  ELSE runSetterList(runSetter(cx, e, names[i], run), e, names, i + 1, run)

\* runSetters(entry, names, callback, updateType)
runSetters(cx, e, names, run) ==
  runSetterList(cx, e, IF names.k = "list" THEN names.list ELSE cx.st[e].setterKeys, 1, run)

\* An updateBindings without its cycle guard.
neverReturnsAtOnce(en, e, updateType, seen) == FALSE

\* The cycle guard of updateBindings (lines 603-612).
shouldUpdateParents(en, updateType) ==
  en.circular \/ updateType = UPDATE_TYPE_LIVE \/ updateType = UPDATE_TYPE_INIT

returnsAtOnce(en, e, updateType, seen) ==
  shouldUpdateParents(en, updateType) /\ e \in seen

\* An escalation that makes every call on a parent live.
alwaysLive(updateType) == UPDATE_TYPE_LIVE

\* The update type of the calls on the parents (lines 650-654).
parentUpdateType(updateType) ==
  IF updateType # UPDATE_TYPE_DEFAULT THEN UPDATE_TYPE_LIVE ELSE updateType

\* No call tree is deeper than this: a call past it is recorded as an overrun.
DepthLimit == Cardinality(Mods) + 2

\* What the passes of a call are run with: the callback's flag and update
\* type, and the flags runSetter computes.
Run(en, updateType) ==
  [updateType |-> updateType, shouldUpdateParents |-> shouldUpdateParents(en, updateType),
   isESM |-> FALSE, isLoaded |-> FALSE, isNsChanged |-> FALSE]

\* The call that calls updateBindings on its parents.
Caller(e, updateType) == [entry |-> e, updateType |-> updateType]

\* An event of a call tree: the call on e at the given depth ran its passes
\* ("run"), returned at once ("return") or added e to the seen set ("seen").
Event(ev, e, depth) == [ev |-> ev, entry |-> e, depth |-> depth]

RECURSIVE updateBindings(_, _, _, _, _)
RECURSIVE updateParents(_, _, _, _, _, _)

\* updateBindings from the end of the setter pass (lines 644-672).
afterPasses(cx, e, updateType, depth) ==
  IF cx.thrown # NoError THEN cx
  ELSE IF cx.parents = <<>> THEN [cx EXCEPT !.st[e]._changed = FALSE]
  ELSE updateParents(
         [cx EXCEPT !.st[e]._changed = FALSE, !.seen = @ \cup {e},
                    !.trace = Append(@, Event("seen", e, depth))],
         Caller(e, updateType), cx.parents, 1, parentUpdateType(updateType), depth)

\* The setter pass, unless the getter pass threw.
setterPass(cx, e, names, run) ==
  IF cx.thrown # NoError THEN cx ELSE runSetters(cx, e, names, run)

\* entry.updateBindings(names, updateType, seen), the call at depth `depth` of
\* its tree.
updateBindings(cx, e, names, updateType, depth) ==
  IF depth > DepthLimit THEN [cx EXCEPT !.overrun = TRUE]
  ELSE IF returnsAtOnce(cx.st[e], e, updateType, cx.seen)
  THEN [cx EXCEPT !.trace = Append(@, Event("return", e, depth))]
  ELSE afterPasses(
         setterPass(
           runGetters([cx EXCEPT !.st[e]._changed = FALSE, !.parents = <<>>,
                                 !.trace = Append(@, Event("run", e, depth))],
                      e, names),
           e, names, Run(cx.st[e], updateType)),
         e, updateType, depth)

\* The loop over parentsMap (lines 665-670), at index i, in the call `from`:
\* parentEntry.loaded(), then parentEntry.updateBindings(null,
\* parentUpdateType, seen).
updateParents(cx, from, parents, i, updateType, depth) ==
  IF i > Len(parents) \/ cx.thrown # NoError \/ cx.overrun THEN cx
  ELSE updateParents(
         updateBindings([cx EXCEPT !.st = loaded(cx.st, parents[i]),
                                   !.recursive = Append(@, [from |-> from, entry |-> parents[i],
                                                            names |-> NamesNull,
                                                            updateType |-> updateType,
                                                            seen |-> cx.seen])],
                        parents[i], NamesNull, updateType, depth + 1),
         from, parents, i + 1, updateType, depth)

-----------------------------------------------------------------------------
(* Writing through the mutable namespace views.  The properties of the raw *)
(* exported object are plain data properties, and the descriptors handed   *)
(* to defineProperty are full ones ({ value, writable, enumerable,         *)
(* configurable }), so that every property stays writable.                 *)

\* Whether exported[name] can be set: every property is writable.
isUpdatableSet(en, name) == TRUE

\* A trap that has called entry.updateBindings(name) returns true, unless the
\* call threw.
updated(cx) == Result(cx.st, TRUE, cx.thrown)

\* A trap that republishes nothing.
republishNothing(st, e, name, present) == Result(st, TRUE, NoError)

\* What the three traps do once the raw exported object is written: when the
\* name is present, entry.addGetter(name, () => entry.namespace[name]) and
\* entry.updateBindings(name) (lines 833-836, 842-845, 913-916).
republish(st, e, name, present) ==
  IF present
  THEN updated(updateBindings(Context(addGetter(st, e, name, NamespaceGetter(e, name))),
                              e, NamesList(<<name>>), UPDATE_TYPE_DEFAULT, 1))
  ELSE Result(st, TRUE, NoError)

\* handler.defineProperty of assignMutableNamespaceHandlerTraps.
mutableDefineProperty(st, e, view, name, descriptor) ==
  IF st[e]._namespaceFinalized # NAMESPACE_FINALIZATION_COMPLETED
  THEN Result(st, FALSE, NoError)
  ELSE republish([st EXCEPT ![e].exports[name] = descriptor.value], e, name,
                 rawHas(st[e], view, name))

\* handler.deleteProperty of assignMutableNamespaceHandlerTraps.
mutableDeleteProperty(st, e, view, name) ==
  republish([st EXCEPT ![e].exports[name] = Absent], e, name, rawHas(st[e], view, name))

\* handler.set of assignMutableNamespaceHandlerTraps.
mutableSet(st, e, view, name, value) ==
  IF ~isUpdatableSet(st[e], name)
  THEN Result([st EXCEPT ![e].exports[name] = value], FALSE, NoError)
  ELSE republish([st EXCEPT ![e].exports[name] = value], e, name,
                 name \in namespaceKeys(st[e]))

-----------------------------------------------------------------------------
(* Resuming children.  entry.runtime is "null", "runtime" (a runtime       *)
(* object whose _runResult is undefined) or "runResult" (the body is       *)
(* suspended in runtime._runResult); entry._finalize is whether a finalize *)
(* hook is registered.                                                     *)

\* What a resumeChildren call carries: the records, an error on its way up,
\* and the log of what it did to the children, in order.
Resuming(st) == [st |-> st, thrown |-> NoError, log |-> <<>>]

\* An entry of the log: what was done to child c, and the flags of c when it
\* was done.
ResumeEvent(ev, c, en) ==
  [ev |-> ev, entry |-> c, running |-> en.running, moduleLoaded |-> en.moduleLoaded,
   state |-> en.state]

RECURSIVE resumeChildrenFrom(_, _, _, _)

\* runtime._runResult.next(): the suspended body of c runs to its end; it
\* assigns its variable, assigns nothing, or (the effect names a module)
\* makes that module call resumeChildren() while c is running.
next(r, c, effect) ==
  IF effect = "assign" THEN [r EXCEPT !.st[c].locals["v"] = Val(1)]
  ELSE IF effect \in Mods THEN resumeChildrenFrom(r, r.st[effect].children, 1, "return")
  ELSE r

\* A resumption that takes no notice of the execution state of the child.
resumesAgain(en) ==
  /\ en.runtime # "null"
  /\ en.runtime = "runResult"

\* A resumeChildren that skips no child.
skipsNone(en) == FALSE

\* Whether the loop skips the child (lines 576-578).
skipsRunning(en) == en.running

\* Whether the child's suspended body is resumed (lines 582-584).
resumes(en) ==
  /\ en.runtime # "null"
  /\ en.runtime = "runResult"
  /\ en.state < STATE_EXECUTION_STARTED

\* Lines 585-591: the body of c is resumed, if it is to be.
resumeBody(r, c, effect) ==
  IF ~resumes(r.st[c]) THEN r
  ELSE [next([r EXCEPT
                !.st = [@ EXCEPT ![c].state = STATE_EXECUTION_STARTED, ![c].running = TRUE],
                !.log = Append(@, ResumeEvent("next", c,
                          [r.st[c] EXCEPT !.state = STATE_EXECUTION_STARTED,
                                          !.running = TRUE]))],
             c, effect)
          EXCEPT !.st[c].running = FALSE, !.st[c].moduleLoaded = TRUE,
                 !.st[c].state = STATE_EXECUTION_COMPLETED]

\* Line 597: childEntry.updateBindings(null, UPDATE_TYPE_INIT), the records
\* being s after childEntry.loaded().
publishBindings(r, c, cx) ==
  [st |-> cx.st, thrown |-> cx.thrown,
   log |-> Append(r.log, ResumeEvent("updateBindings", c, cx.st[c]))]

\* Line 596: childEntry.loaded().
publishLoaded(r, c, s) ==
  publishBindings([r EXCEPT !.log = Append(@, ResumeEvent("loaded", c, r.st[c]))], c,
                  updateBindings(Context(s), c, NamesNull, UPDATE_TYPE_INIT, 1))

\* Lines 593-598: the finalize hook of c, or loaded() and updateBindings.
publish(r, c) ==
  IF r.st[c]._finalize
  THEN [r EXCEPT !.log = Append(@, ResumeEvent("_finalize", c, r.st[c]))]
  ELSE publishLoaded(r, c, loaded(r.st, c))

\* One round of the loop of resumeChildren.
resumeChild(r, c, effect) ==
  IF r.thrown # NoError THEN r
  ELSE IF skipsRunning(r.st[c]) THEN r
  ELSE publish(resumeBody(r, c, effect), c)

\* The loop of resumeChildren over children[i..].
resumeChildrenFrom(r, children, i, effect) ==
  IF i > Len(children) THEN r
  ELSE resumeChildrenFrom(resumeChild(r, children[i], effect), children, i + 1, effect)

\* entry.resumeChildren()
resumeChildren(st, e, effect) == resumeChildrenFrom(Resuming(st), st[e].children, 1, effect)

-----------------------------------------------------------------------------
(* The host: the loader and the runtime of the module bodies, which call   *)
(* the methods above.  A graph names the modules' import and export        *)
(* declarations; the bodies register them in load order (link), assign     *)
(* their variables and call updateBindings.                                *)

VARIABLES
  graph,   \* the import graph the loader is linking
  entry,   \* the Entry of every module
  wired,   \* how many registrations of the link order have been made
  test     \* the promise chain of the test of the import without extension

vars == <<graph, entry, wired, test>>

\* A promise: pending, fulfilled, or rejected with an error of a code.
Pending == [k |-> "pending", code |-> "-"]
Fulfilled == [k |-> "fulfilled", code |-> "-"]
RejectedWith(code) == [k |-> "rejected", code |-> code]

\* The test before it calls import(): `imported` is the promise import()
\* returns, `promise` the promise the chain has reached.
Idle == [at |-> "idle", imported |-> Pending, promise |-> Pending]

\* The package options of the modules (cjs.interop, cjs.namedExports,
\* cjs.mutableNamespace).
Options(interop, namedExports, mutableNamespace) ==
  [interop |-> interop, namedExports |-> namedExports, mutableNamespace |-> mutableNamespace]

\* A registration of a body: entry.addGetter(name, getter), or
\* entry.addSetter(name, localNames, setter, parentEntry) with a setter of one
\* of the given types whose callback reports one of the given results.
GetterStep(e, name, getter) ==
  [op |-> "addGetter", entry |-> e, name |-> name, getter |-> getter,
   parent |-> "-", localNames |-> {}, types |-> {}, results |-> {}]
SetterStep(e, name, parentEntry, localNames, types, results) ==
  [op |-> "addSetter", entry |-> e, name |-> name, getter |-> NoGetter,
   parent |-> parentEntry, localNames |-> localNames, types |-> types, results |-> results]

\* The registrations of each graph, in load order.
\* diamond: every module exports its variable v as x; B and C import x from D
\* (as v, so that they pass it on), A imports x from B (as w) and from C (as
\* u), and D imports x from A (as w), which closes a cycle.
LinkSteps ==
  [ diamond |->
      << GetterStep("A", "x", LocalGetter("A", "v")),
         GetterStep("B", "x", LocalGetter("B", "v")),
         SetterStep("A", "x", "D", {"w"}, {"-"}, {FALSE}),
         SetterStep("D", "x", "B", {"v"}, {"-", SETTER_TYPE_EXPORT_FROM}, BOOLEAN),
         SetterStep("B", "x", "A", {"w"}, {"-"}, {FALSE}),
         GetterStep("C", "x", LocalGetter("C", "v")),
         SetterStep("D", "x", "C", {"v"}, {"-", SETTER_TYPE_NAMESPACE}, {FALSE}),
         SetterStep("C", "x", "A", {"u"}, {"-"}, {FALSE}) >>,
    \* ring: A, B and C export their variable v as x; B imports x from A and C
    \* from B (as v), and A imports x from C (as w); every import may be a
    \* re-export (export { x } from).
    ring |->
      << GetterStep("A", "x", LocalGetter("A", "v")),
         GetterStep("B", "x", LocalGetter("B", "v")),
         GetterStep("C", "x", LocalGetter("C", "v")),
         SetterStep("A", "x", "B", {"v"}, {"-", SETTER_TYPE_EXPORT_FROM}, BOOLEAN),
         SetterStep("B", "x", "C", {"v"}, {"-", SETTER_TYPE_EXPORT_FROM}, BOOLEAN),
         SetterStep("C", "x", "A", {"w"}, {"-", SETTER_TYPE_EXPORT_FROM}, BOOLEAN) >>,
    \* reexport: B exports its variable v as default, and re-exports x from D
    \* or has two export-stars that disagree on x (the export declarations
    \* below); A and C import x from B (as v) and A imports default (as w).
    reexport |->
      << GetterStep("B", "default", LocalGetter("B", "v")),
         SetterStep("B", "x", "A", {"v"}, {"-"}, {FALSE}),
         SetterStep("B", "x", "C", {"v"}, {"-"}, {FALSE}),
         SetterStep("B", "default", "A", {"w"}, {"-"}, {FALSE}) >>,
    \* namespace: A, which imports B and re-exports its x as default; the
    \* loader links nothing ahead of the bodies.
    namespace |-> << >>,
    \* resume: B and C export their variable v as x, A imports both (as w
    \* and u).
    resume |->
      << GetterStep("B", "x", LocalGetter("B", "v")),
         SetterStep("B", "x", "A", {"w"}, {"-"}, {FALSE}),
         GetterStep("C", "x", LocalGetter("C", "v")),
         SetterStep("C", "x", "A", {"u"}, {"-"}, {FALSE}) >>,
    \* mutable: A exports its variable v as x (or, a CommonJS module, assigns
    \* exports.x), B and C import it (as w and u), and C imports the default
    \* export of A (as v).
    mutable |->
      << SetterStep("A", "x", "B", {"w"}, {"-"}, {FALSE}),
         SetterStep("A", "x", "C", {"u"}, {"-"}, {FALSE}),
         SetterStep("A", "default", "C", {"v"}, {"-"}, {FALSE}) >>,
    \* interop: A exports its variable v as x and as default (or, a CommonJS
    \* module, assigns exports.x and exports.default); B imports default (as
    \* w), the namespace (as u) and x (as v).
    interop |->
      << SetterStep("A", "default", "B", {"w"}, {"-"}, {FALSE}),
         SetterStep("A", "*", "B", {"u"}, {SETTER_TYPE_NAMESPACE}, {FALSE}),
         SetterStep("A", "x", "B", {"v"}, {"-"}, {FALSE}) >>,
    \* dynamic: A exports its variable v as x; B imports x statically (as w
    \* and, in a later declaration, as v), C and D import A dynamically, each
    \* with a callback that reports success or does not.
    dynamic |->
      << SetterStep("A", "x", "B", {"w"}, {"-"}, {FALSE}),
         SetterStep("A", "x", "C", {"u"}, {SETTER_TYPE_DYNAMIC_IMPORT}, BOOLEAN),
         SetterStep("A", "x", "D", {"u"}, {SETTER_TYPE_DYNAMIC_IMPORT}, BOOLEAN),
         SetterStep("A", "x", "B", {"v"}, {"-"}, {FALSE}) >> ]

\* The getters a body may hand to addGetter at any time (again, too).
ExportDeclarations ==
  [ diamond |-> { <<"D", "x", LocalGetter("D", "v")>> },
    ring |-> {},
    reexport |-> { <<"D", "x", LocalGetter("D", "v")>>, <<"D", "x", LocalGetter("D", "w")>>,
                   <<"D", "x", ThrowingGetter>>, <<"B", "x", StarGetter>> },
    namespace |-> { <<"A", "x", LocalGetter("A", "v")>>, <<"A", "x", ThrowingGetter>>,
                    <<"B", "x", LocalGetter("B", "v")>> },
    resume |-> {},
    mutable |-> { <<"A", "x", LocalGetter("A", "v")>> },
    interop |-> { <<"A", "x", LocalGetter("A", "v")>>, <<"A", "default", LocalGetter("A", "v")>> },
    dynamic |-> { <<"A", "x", LocalGetter("A", "v")>> } ]

\* The re-exports a body may wire with addGetterFrom at any time:
\* <<entry, otherEntry, importedName, exportedName>>.
ReExportDeclarations ==
  [ diamond |-> {}, ring |-> {}, reexport |-> { <<"B", "D", "x", "x">> },
    namespace |-> { <<"A", "B", "x", "default">> }, resume |-> {}, mutable |-> {} ]

\* The variable a body assigns: <<module, variable>>.
Assigned ==
  [ diamond |-> <<"D", "v">>, ring |-> <<"A", "v">>, reexport |-> <<"D", "v">>,
    namespace |-> <<"A", "v">>, resume |-> <<"B", "v">>, mutable |-> <<"A", "v">>,
    interop |-> <<"A", "v">>, dynamic |-> <<"A", "v">> ]

\* The modules whose updateBindings the host calls, and with which names.
Updated ==
  [ diamond |-> Mods, ring |-> {"A", "B", "C"}, reexport |-> {"B"}, namespace |-> {"A"},
    resume |-> {"B", "C"}, mutable |-> {"A"}, interop |-> {"A"}, dynamic |-> {"A"},
    reenter |-> {"B", "C"} ]
NamesInputs ==
  [ diamond |-> {NamesUndefined, NamesList(<<"x">>)},
    ring |-> {NamesUndefined, NamesList(<<"x">>)},
    reexport |-> {NamesUndefined, NamesList(<<"x">>)},
    namespace |-> {NamesUndefined, NamesNull, NamesList(<<"x">>)},
    resume |-> {NamesNull},
    mutable |-> {NamesUndefined, NamesList(<<"x">>)},
    interop |-> {NamesUndefined},
    dynamic |-> {NamesUndefined} ]
UpdateTypes == {UPDATE_TYPE_DEFAULT, UPDATE_TYPE_INIT, UPDATE_TYPE_LIVE}

\* The sets of modules the loader may have flagged circular.
CircularSets ==
  [ diamond |-> { {}, {"A", "B", "D"} },
    ring |-> SUBSET {"A", "B", "C"},
    reexport |-> { {}, {"B"} },
    namespace |-> { {} },
    resume |-> { {} },
    mutable |-> { {} },
    dynamic |-> { {}, {"A"} },
    reenter |-> { {} } ]

\* The types the modules of a graph may have: the source type of each is
\* known when its Entry is made.
AllESM == [e \in Mods |-> TYPE_ESM]
ModuleTypes ==
  [ diamond |-> {AllESM}, ring |-> {AllESM}, reexport |-> {AllESM},
    namespace |-> {AllESM, [AllESM EXCEPT !["A"] = TYPE_CJS]},
    resume |-> {AllESM},
    mutable |-> {AllESM, [AllESM EXCEPT !["A"] = TYPE_CJS]},
    dynamic |-> {AllESM},
    reenter |-> {AllESM} ]

\* The parent and child pairs the loader records in entry.children.
Children ==
  [ diamond |-> {}, ring |-> {}, reexport |-> {}, namespace |-> {<<"A", "B">>},
    resume |-> {<<"A", "B">>, <<"A", "C">>}, mutable |-> {},
    reenter |-> {<<"A", "B">>, <<"A", "C">>, <<"D", "C">>} ]

\* The modules the loader loads, and those whose namespace views the host
\* reads and writes.
Loaded ==
  [ diamond |-> {}, ring |-> {}, reexport |-> {}, namespace |-> {"A", "B"},
    resume |-> {}, mutable |-> {"A"}, interop |-> {"A"}, dynamic |-> {"A"} ]

\* The names a CommonJS body assigns on its exports object.
Exported ==
  [ diamond |-> {}, ring |-> {}, reexport |-> {}, namespace |-> {"x"},
    resume |-> {}, mutable |-> {"x"}, interop |-> {"x", "default"} ]
Viewed == {"A"}

\* The names the host writes through the readonly views.
Written == {"x"}

\* The descriptor { writable: false }, which carries no value.
ReadOnlyDescriptor == [hasValue |-> FALSE, value |-> Undefined, writable |-> "false"]

\* The descriptors the host passes to defineProperty.
Descriptors == {ValueDescriptor(Val(1))}

InitGraph(g) ==
  /\ graph = g
  /\ \E circular \in CircularSets[g], types \in ModuleTypes[g] :
       entry = [e \in Mods |->
                  NewEntry(types[e], e \in circular, ".js", Options(TRUE, TRUE, e = "A"))]
  /\ wired = 0
  /\ test = Idle

\* A body registers (or registers again) an export.
AddGetter ==
  \E d \in ExportDeclarations[graph] :
    /\ entry[d[1]].type = TYPE_ESM
    /\ entry' = addGetter(entry, d[1], d[2], d[3])
    /\ UNCHANGED <<graph, wired, test>>

\* A body wires a re-export.
AddGetterFrom ==
  \E d \in ReExportDeclarations[graph] :
    /\ entry[d[1]].type = TYPE_ESM
    /\ entry' = addGetterFrom(entry, d[1], d[2], d[3], d[4])
    /\ UNCHANGED <<graph, wired, test>>

\* The next registration of the link order.
Link ==
  /\ wired < Len(LinkSteps[graph])
  /\ LET d == LinkSteps[graph][wired + 1]
     IN IF d.op = "addGetter"
        THEN entry' = addGetter(entry, d.entry, d.name, d.getter)
        ELSE \E type \in d.types, result \in d.results :
               /\ (type \notin {SETTER_TYPE_EXPORT_FROM, SETTER_TYPE_DYNAMIC_IMPORT} => ~result)
               /\ entry' = addSetter(entry, d.entry, d.name, d.localNames,
                                     SetterFunction(type, result), d.parent)
  /\ wired' = wired + 1
  /\ UNCHANGED <<graph, test>>

\* A body assigns the next value to its variable.
Assign ==
  LET e == Assigned[graph][1]
      var == Assigned[graph][2]
  IN \E v \in Values :
       /\ entry[e].type = TYPE_ESM
       /\ v.n = entry[e].locals[var].n + 1
       /\ entry' = [entry EXCEPT ![e].locals[var] = v]
       /\ UNCHANGED <<graph, wired, test>>

\* entry.updateBindings(names, updateType) called by the host, from the
\* records st.
Update(st, e, names, updateType) == updateBindings(Context(st), e, names, updateType, 1)

\* The host calls entry.updateBindings(names, updateType).
UpdateBindings ==
  \E e \in Updated[graph], names \in NamesInputs[graph], updateType \in UpdateTypes :
    LET cx == Update(entry, e, names, updateType)
    IN /\ entry' = cx.st
       /\ UNCHANGED <<graph, wired, test>>

Next ==
  \/ AddGetter
  \/ Link
  \/ Assign
  \/ UpdateBindings

Init == InitGraph("diamond")

Spec == Init /\ [][Next]_vars

\* The ring: three modules that import in a cycle.
InitCycle == InitGraph("ring")

NextCycle ==
  \/ Link
  \/ Assign
  \/ UpdateBindings

SpecCycle == InitCycle /\ [][NextCycle]_vars

\* The re-exporting module B, its source D and its importers A and C.
InitReexport == InitGraph("reexport")

NextReexport ==
  \/ AddGetter
  \/ AddGetterFrom
  \/ Link
  \/ Assign
  \/ UpdateBindings

SpecReexport == InitReexport /\ [][NextReexport]_vars

\* The body of a CommonJS module assigns exports.x or exports.default.
Export ==
  \E e \in Loaded[graph], name \in Exported[graph] :
    /\ entry[e].type = TYPE_CJS /\ ~entry[e].moduleLoaded
    /\ entry[e].exports[name] = Absent
    /\ entry' = [entry EXCEPT ![e].exports[name] = Val(1)]
    /\ UNCHANGED <<graph, wired, test>>

\* The loader records a child of a module whose body has not finished.
AddChild ==
  \E d \in Children[graph] :
    /\ ~entry[d[1]].moduleLoaded
    /\ ~InSeq(d[2], entry[d[1]].children)
    /\ entry' = [entry EXCEPT ![d[1]].children = Append(@, d[2])]
    /\ UNCHANGED <<graph, wired, test>>

\* The body of a module has finished: the loader sets module.loaded.
ModuleLoaded ==
  \E e \in Loaded[graph] :
    /\ ~entry[e].moduleLoaded
    /\ entry' = [entry EXCEPT ![e].moduleLoaded = TRUE]
    /\ UNCHANGED <<graph, wired, test>>

\* The loader calls entry.loaded().
CallLoaded ==
  \E e \in Loaded[graph] :
    /\ entry' = loaded(entry, e)
    /\ UNCHANGED <<graph, wired, test>>

\* The loader calls entry.finalizeNamespace().
FinalizeNamespace ==
  \E e \in Viewed :
    /\ entry' = finalizeNamespace(entry, e)
    /\ UNCHANGED <<graph, wired, test>>

\* A caller reads a property of a namespace view: the records stay as they are.
NamespaceGet ==
  \E e \in Viewed, view \in Views, name \in Names :
    /\ handlerGet(entry, e, view, name) \in [thrown : STRING, v : [k : STRING, n : Int, m : STRING]]
    /\ UNCHANGED vars

\* A strict or sloppy caller defines a property through a readonly view.
DefineProperty ==
  \E e \in Viewed, view \in {Complete, Partial}, name \in Written,
     descriptor \in Descriptors, strict \in BOOLEAN :
    /\ entry' = immutableDefineProperty(entry, e, view, name, descriptor, strict).st
    /\ UNCHANGED <<graph, wired, test>>

\* A caller deletes a property through a readonly view.
DeleteProperty ==
  \E e \in Viewed, view \in {Complete, Partial}, name \in Written, strict \in BOOLEAN :
    /\ entry' = immutableDeleteProperty(entry, e, view, name, strict).st
    /\ UNCHANGED <<graph, wired, test>>

\* A caller assigns to a property through a readonly view.
SetProperty ==
  \E e \in Viewed, view \in {Complete, Partial}, name \in Written, strict \in BOOLEAN :
    /\ entry' = immutableSet(entry, e, view, name, strict).st
    /\ UNCHANGED <<graph, wired, test>>

\* A and B, which import each other, their loading and their namespace views.
InitNamespace == InitGraph("namespace")

NextNamespace ==
  \/ AddGetter
  \/ AddGetterFrom
  \/ Assign
  \/ Export
  \/ AddChild
  \/ ModuleLoaded
  \/ CallLoaded
  \/ FinalizeNamespace
  \/ UpdateBindings
  \/ NamespaceGet
  \/ DefineProperty
  \/ DeleteProperty
  \/ SetProperty

SpecNamespace == InitNamespace /\ [][NextNamespace]_vars

\* What the resumed body of a child does.
BodySteps == {"return", "assign"}

\* The runtime compiles a child: it gets its runtime object, with or without
\* a suspended body.
SetRuntime ==
  \E e \in Updated[graph], runtime \in {"runtime", "runResult"} :
    /\ entry[e].runtime = "null" /\ entry[e].state = STATE_INITIAL
    /\ entry' = [entry EXCEPT ![e].runtime = runtime]
    /\ UNCHANGED <<graph, wired, test>>

\* The loader registers a finalize hook on a child.
SetFinalize ==
  \E e \in Updated[graph] :
    /\ ~entry[e]._finalize
    /\ entry' = [entry EXCEPT ![e]._finalize = TRUE]
    /\ UNCHANGED <<graph, wired, test>>

\* The loader starts the body of a child itself.
StartBody ==
  \E e \in Updated[graph] :
    /\ ~entry[e].running /\ entry[e].state < STATE_EXECUTION_STARTED
    /\ entry' = [entry EXCEPT ![e].running = TRUE, ![e].state = STATE_EXECUTION_STARTED]
    /\ UNCHANGED <<graph, wired, test>>

\* A body the loader started has finished.
FinishBody ==
  \E e \in Updated[graph] :
    /\ entry[e].running
    /\ entry' = [entry EXCEPT ![e].running = FALSE, ![e].moduleLoaded = TRUE,
                              ![e].state = STATE_EXECUTION_COMPLETED]
    /\ UNCHANGED <<graph, wired, test>>

\* The body of A calls entry.resumeChildren().
ResumeChildren ==
  \E effect \in BodySteps :
    /\ entry' = resumeChildren(entry, "A", effect).st
    /\ UNCHANGED <<graph, wired, test>>

\* A and its children B and C, whose bodies the loader runs or A resumes.
InitResume == InitGraph("resume")

NextResume ==
  \/ Link
  \/ AddChild
  \/ SetRuntime
  \/ SetFinalize
  \/ StartBody
  \/ FinishBody
  \/ ResumeChildren

SpecResume == InitResume /\ [][NextResume]_vars

\* The modules that call resumeChildren(), and what the body of a child may
\* do when it is resumed: return, assign its variable, or make one of those
\* modules call resumeChildren() again.
Parents == {"A", "D"}
ReentrantSteps == BodySteps \cup Parents

\* The body of a parent calls entry.resumeChildren().
ResumeChildrenOf ==
  \E e \in Parents, effect \in ReentrantSteps :
    /\ entry' = resumeChildren(entry, e, effect).st
    /\ UNCHANGED <<graph, wired, test>>

\* A and D and their children: B of A, C of both.
InitReenter == InitGraph("reenter")

NextReenter ==
  \/ AddChild
  \/ SetRuntime
  \/ SetFinalize
  \/ StartBody
  \/ FinishBody
  \/ ResumeChildrenOf

SpecReenter == InitReenter /\ [][NextReenter]_vars

\* The full data descriptor of a value.
DataDescriptor(v) == [hasValue |-> TRUE, value |-> v, writable |-> "true"]

\* The values the host writes through the mutable views.
WrittenValues == {Val(n) : n \in 1..MaxVal}

\* A caller defines a property through a mutable view.
MutableDefineProperty ==
  \E e \in Viewed, view \in {CompleteMutable, PartialMutable}, name \in Names,
     v \in WrittenValues :
    /\ entry' = mutableDefineProperty(entry, e, view, name, DataDescriptor(v)).st
    /\ UNCHANGED <<graph, wired, test>>

\* A caller deletes a property through a mutable view.
MutableDeleteProperty ==
  \E e \in Viewed, view \in {CompleteMutable, PartialMutable}, name \in Names :
    /\ entry' = mutableDeleteProperty(entry, e, view, name).st
    /\ UNCHANGED <<graph, wired, test>>

\* A caller assigns to a property through a mutable view.
MutableSet ==
  \E e \in Viewed, view \in {CompleteMutable, PartialMutable}, name \in Names,
     v \in WrittenValues :
    /\ entry' = mutableSet(entry, e, view, name, v).st
    /\ UNCHANGED <<graph, wired, test>>

\* A, whose mutable namespace views the host writes, and its importers B and C.
InitMutable == InitGraph("mutable")

NextMutable ==
  \/ AddGetter
  \/ Link
  \/ Assign
  \/ Export
  \/ ModuleLoaded
  \/ CallLoaded
  \/ UpdateBindings
  \/ MutableDefineProperty
  \/ MutableDeleteProperty
  \/ MutableSet

SpecMutable == InitMutable /\ [][NextMutable]_vars

\* The body of a CommonJS module marks its exports object with __esModule.
ExportMarker ==
  \E e \in Loaded[graph] :
    /\ entry[e].type = TYPE_CJS /\ ~entry[e].moduleLoaded /\ ~entry[e].esModule
    /\ entry' = [entry EXCEPT ![e].esModule = TRUE]
    /\ UNCHANGED <<graph, wired, test>>

\* The exporter A and its importer B, of every export style, extension and
\* package configuration (a CommonJS module never has the extension .mjs).
InitInterop ==
  /\ graph = "interop"
  /\ \E type \in {TYPE_ESM, TYPE_CJS}, extname \in {".js", ".mjs"}, interop \in BOOLEAN,
        parentExtname \in {".js", ".mjs"}, namedExports \in BOOLEAN,
        mutableNamespace \in BOOLEAN :
       /\ type = TYPE_CJS => extname = ".js"
       /\ entry = [e \in Mods |->
                     IF e = "A" THEN NewEntry(type, FALSE, extname, Options(interop, TRUE, FALSE))
                     ELSE NewEntry(TYPE_ESM, FALSE, parentExtname,
                                   Options(TRUE, namedExports, mutableNamespace))]
  /\ wired = 0
  /\ test = Idle

NextInterop ==
  \/ AddGetter
  \/ Link
  \/ Assign
  \/ Export
  \/ ExportMarker
  \/ ModuleLoaded
  \/ CallLoaded
  \/ UpdateBindings

SpecInterop == InitInterop /\ [][NextInterop]_vars

\* The module A, imported statically by B and dynamically by C and D, from
\* before its body has finished until after it is loaded.
InitDynamic == InitGraph("dynamic")

NextDynamic ==
  \/ AddGetter
  \/ Link
  \/ Assign
  \/ ModuleLoaded
  \/ CallLoaded
  \/ UpdateBindings

SpecDynamic == InitDynamic /\ [][NextDynamic]_vars

-----------------------------------------------------------------------------
(* The dynamic import of test/cjs/ext/no-ext.mjs: B is the importing       *)
(* module, A the file it imports.                                          *)

\* The codes of the errors a promise of the test is rejected with.
ERR_UNKNOWN_FILE_EXTENSION == "ERR_UNKNOWN_FILE_EXTENSION"
ERR_ASSERTION == "ERR_ASSERTION"
ERR_OTHER == "ERR_OTHER"

\* The ways a promise settles.
Settlements ==
  {Fulfilled} \cup
  {RejectedWith(code) : code \in {ERR_UNKNOWN_FILE_EXTENSION, ERR_ASSERTION, ERR_OTHER}}

\* A loader of which nothing is known.
importsAnything(parent, en) == Settlements

\* How the loader may settle import() of the file of `en` from the module
\* `parent`: a file without extension that holds ES module source, imported
\* from an .mjs module, is rejected with ERR_UNKNOWN_FILE_EXTENSION; of any
\* other import nothing is known.
importOutcomes(parent, en) ==
  IF parent.extname = ".mjs" /\ en.extname = "" /\ en.type = TYPE_ESM
  THEN {RejectedWith(ERR_UNKNOWN_FILE_EXTENSION)}
  ELSE Settlements

\* promise.then(() => assert.ok(false)): a fulfilled promise runs the
\* callback, whose assertion fails; a rejected one passes through.
thenCallback(promise) ==
  IF promise = Fulfilled THEN RejectedWith(ERR_ASSERTION) ELSE promise

\* promise.catch((e) => assert.strictEqual(e.code, "ERR_UNKNOWN_FILE_EXTENSION")):
\* a rejected promise runs the callback, a fulfilled one passes through.
catchCallback(promise) ==
  IF promise = Fulfilled THEN promise
  ELSE IF promise.code = ERR_UNKNOWN_FILE_EXTENSION THEN Fulfilled
  ELSE RejectedWith(ERR_ASSERTION)

\* The test calls import().
DynamicImport ==
  /\ test.at = "idle"
  /\ test' = [test EXCEPT !.at = "import"]
  /\ UNCHANGED <<graph, entry, wired>>

\* The loader settles the promise of import().
SettleImport ==
  /\ test.at = "import" /\ test.imported = Pending
  /\ \E outcome \in importOutcomes(entry["B"], entry["A"]) :
       test' = [test EXCEPT !.imported = outcome, !.promise = outcome]
  /\ UNCHANGED <<graph, entry, wired>>

\* The promise of .then() settles.
ThenCallback ==
  /\ test.at = "import" /\ test.imported # Pending
  /\ test' = [test EXCEPT !.at = "then", !.promise = thenCallback(@)]
  /\ UNCHANGED <<graph, entry, wired>>

\* The promise of .catch(), which the test returns, settles.
CatchCallback ==
  /\ test.at = "then"
  /\ test' = [test EXCEPT !.at = "catch", !.promise = catchCallback(@)]
  /\ UNCHANGED <<graph, entry, wired>>

\* The importing module, .mjs or not, and the file it imports, of every
\* extension and kind of source.
InitImport ==
  /\ graph = "import"
  /\ \E type \in {TYPE_ESM, TYPE_CJS}, extname \in {"", ".js", ".mjs"},
        parentExtname \in {".js", ".mjs"} :
       entry = [e \in Mods |->
                  IF e = "A" THEN NewEntry(type, FALSE, extname, Options(TRUE, TRUE, FALSE))
                  ELSE NewEntry(TYPE_ESM, FALSE, parentExtname, Options(TRUE, TRUE, FALSE))]
  /\ wired = 0
  /\ test = Idle

NextImport ==
  \/ DynamicImport
  \/ SettleImport
  \/ ThenCallback
  \/ CatchCallback

SpecImport == InitImport /\ [][NextImport]_vars

-----------------------------------------------------------------------------
(* Properties of updateBindings.  They are stated of every call the host   *)
(* may make from a reachable state: Outcome(call) is the context the call  *)
(* returns, with the trace of its call tree and the setters it invoked.    *)

\* The calls the host may make: <<entry, names, updateType>>.
Calls == Updated[graph] \X NamesInputs[graph] \X UpdateTypes

\* The loader has made every registration of the graph.
Linked == wired = Len(LinkSteps[graph])

\* What the call does from the current records.
Outcome(call) == Update(entry, call[1], call[2], call[3])

\* The same call made again, from the records the first call left.
Again(first, call) == Update(first.st, call[1], call[2], call[3])

\* An invoked setter, not of a dynamic import, whose resolved value equalled
\* the value it had last observed.
Refired(f) == f.setter.type # SETTER_TYPE_DYNAMIC_IMPORT /\ f.value = f.setter.last

\* The call changed importedBindings[l] of record e from what `before` holds.
BindingChanged(before, cx, e, l) ==
  cx.st[e].importedBindings[l] # before[e].importedBindings[l]

\* The call invoked a setter that binds variable l of record e.
InvokedFor(cx, e, l) ==
  \E k \in 1..Len(cx.fired) :
    cx.fired[k].setter.parent = e /\ l \in cx.fired[k].setter.localNames

\* C1 as stated: when updateBindings is called twice in a row with the same
\* arguments, the second call invokes no setter (dynamic imports aside) whose
\* resolved value equals its last observed value, and changes no
\* importedBindings entry and no namespace cache entry.
C1_Idempotent ==
  \A call \in Calls :
    LET first == Outcome(call)
        second == Again(first, call)
    IN first.thrown = NoError =>
         /\ \A k \in 1..Len(second.fired) : ~Refired(second.fired[k])
         /\ \A e \in Mods :
              /\ second.st[e].importedBindings = first.st[e].importedBindings
              /\ second.st[e]._namespace = first.st[e]._namespace
              /\ second.st[e].exports = first.st[e].exports

\* C1, amended: the second of two such calls invokes a static-import setter
\* whose resolved value equals its last observed value only in a pass of
\* update type init, and a namespace setter only then or when the getter pass
\* changed the record's namespace cache; export-from setters are invoked by
\* every pass; and it changes an importedBindings entry only through a setter
\* it invokes.
C1_RefiresOnlyAsCoded ==
  \A call \in Calls :
    LET first == Outcome(call)
        second == Again(first, call)
    IN first.thrown = NoError =>
         /\ \A k \in 1..Len(second.fired) :
              Refired(second.fired[k]) =>
                \/ second.fired[k].setter.type = SETTER_TYPE_EXPORT_FROM
                \/ second.fired[k].updateType = UPDATE_TYPE_INIT
                \/ /\ second.fired[k].setter.type = SETTER_TYPE_NAMESPACE
                   /\ second.fired[k].isNsChanged
         /\ \A e \in Mods, l \in LocalNames :
              BindingChanged(first.st, second, e, l) => InvokedFor(second, e, l)

\* A live call on D in the linked diamond that invokes setters, static-import
\* setters among them, and whose repetition invokes none and changes nothing.
C1_Witness ==
  /\ graph = "diamond" /\ Linked
  /\ \E names \in NamesInputs[graph] :
       LET call == <<"D", names, UPDATE_TYPE_LIVE>>
           first == Outcome(call)
           second == Again(first, call)
       IN /\ first.thrown = NoError
          /\ \E k \in 1..Len(first.fired) :
               first.fired[k].setter.type = SETTER_TYPE_STATIC_IMPORT
          /\ second.fired = <<>>
          /\ second.st = first.st

\* C2: a call of updateBindings terminates, in a graph with cycles, for any
\* set of modules flagged circular and every update type: its call tree is
\* never deeper than one call per module and the call that closes the cycle.
C2_Terminates ==
  \A call \in Calls :
    LET cx == Outcome(call)
    IN /\ ~cx.overrun
       /\ \A k \in 1..Len(cx.trace) : cx.trace[k].depth <= Cardinality(Mods) + 1

\* A call on A in the linked ring whose tree goes round the whole cycle, running
\* the passes of B and C, and ends with the call on A that returns at once.
C2_Witness ==
  /\ graph = "ring" /\ Linked
  /\ \E call \in Calls :
       LET trace == Outcome(call).trace
       IN /\ call[1] = "A"
          /\ \E i, j, k \in 1..Len(trace) :
               /\ trace[i] = Event("run", "B", 2)
               /\ trace[j] = Event("run", "C", 3)
               /\ trace[k] = Event("return", "A", 4)

\* The passes ran twice on some record in the tree.
RunsTwice(trace) ==
  \E i, j \in 1..Len(trace) :
    i < j /\ trace[i].ev = "run" /\ trace[j].ev = "run" /\ trace[i].entry = trace[j].entry

\* The passes ran on some record after the tree had added it to the seen set.
RunsAfterSeen(trace) ==
  \E i, j \in 1..Len(trace) :
    i < j /\ trace[i].ev = "seen" /\ trace[j].ev = "run" /\ trace[i].entry = trace[j].entry

\* A call on record e returned at once, e having been added to the seen set.
ReturnsWhenSeen(trace, e) ==
  \E i, j \in 1..Len(trace) :
    i < j /\ trace[i] = Event("seen", e, trace[i].depth)
          /\ trace[j] = Event("return", e, trace[j].depth)

\* C3 as stated: within the call tree of one top-level updateBindings call the
\* passes run at most once on each record.
C3_PassesRunOnce == \A call \in Calls : ~RunsTwice(Outcome(call).trace)

\* C3, amended: within the call tree of one top-level updateBindings call no
\* record has its passes run again once the tree has added it to the seen set
\* (a record none of whose setters fired is not added, and runs once per path).
C3_NoRunOnceSeen == \A call \in Calls : ~RunsAfterSeen(Outcome(call).trace)

\* A call on D in the linked diamond whose tree comes back to D through the
\* cycle and a second time to A, the common importer of B and C, and runs the
\* passes of neither again.
C3_Witness ==
  /\ graph = "diamond" /\ Linked
  /\ \E call \in Calls :
       LET trace == Outcome(call).trace
       IN /\ call[1] = "D"
          /\ ReturnsWhenSeen(trace, "D")
          /\ ReturnsWhenSeen(trace, "A")

\* The setters registered on D for x, as the call leaves them.
SettersOfX(cx) == cx.st["D"].setters["x"]

\* The call invoked the setter of importer p on name x of D with the value.
Invoked(cx, p, value) ==
  \E k \in 1..Len(cx.fired) :
    /\ cx.fired[k].entry = "D" /\ cx.fired[k].name = "x"
    /\ cx.fired[k].setter.parent = p
    /\ cx.fired[k].value = value /\ cx.fired[k].argument = setterValue(value)

\* D's value for x differs from what the setter of some importer last observed.
ValueChanged ==
  \E i \in 1..Len(entry["D"].setters["x"]) :
    entry["D"].setters["x"][i].last # getterValue(entry, "D", "x").v

\* C4: in the linked diamond, when D's value for x has changed, a call of
\* updateBindings on D for x (any update type, D circular or not) returns
\* with the setters of both B and C invoked with the new value, their last
\* observed value equal to it and the importing variables holding it.
C4_DiamondConvergence ==
  (graph = "diamond" /\ Linked /\ entry["D"].getters["x"] # NoGetter /\ ValueChanged) =>
    \A call \in Calls :
      call[1] = "D" =>
        LET cx == Outcome(call)
            value == getterValue(entry, "D", "x").v
        IN /\ cx.thrown = NoError /\ ~cx.overrun
           /\ Len(SettersOfX(cx)) = Len(entry["D"].setters["x"])
           /\ \A i \in 1..Len(SettersOfX(cx)) :
                /\ SettersOfX(cx)[i].last = value
                /\ (entry["D"].setters["x"][i].last # value
                      => Invoked(cx, SettersOfX(cx)[i].parent, value))
           /\ cx.st["B"].locals["v"] = value
           /\ cx.st["C"].locals["v"] = value

\* D's variable was assigned a second value after the first had reached B and
\* C; a live call on D delivers it to both and, through them, to A.
C4_Witness ==
  /\ graph = "diamond" /\ Linked /\ ValueChanged
  /\ entry["D"].locals["v"] = Val(2)
  /\ entry["B"].locals["v"] = Val(1) /\ entry["C"].locals["v"] = Val(1)
  /\ LET cx == Update(entry, "D", NamesList(<<"x">>), UPDATE_TYPE_LIVE)
     IN /\ Invoked(cx, "B", Val(2)) /\ Invoked(cx, "C", Val(2))
        /\ cx.st["A"].locals["w"] = Val(2) /\ cx.st["A"].locals["u"] = Val(2)

-----------------------------------------------------------------------------
(* Properties of a re-exporting module (graph reexport: B re-exports from  *)
(* D, A and C import from B).                                              *)

\* How many calls in a row the properties below follow.
MaxCalls == 3

\* The calls of a sequence that throw the export-star conflict, each made from
\* the records the one before left.
RECURSIVE Conflicts(_, _, _)
Conflicts(st, calls, i) ==
  IF i > Len(calls) THEN 0
  ELSE LET cx == Update(st, calls[i][1], calls[i][2], calls[i][3])
       IN (IF cx.thrown = ERR_EXPORT_STAR_CONFLICT /\ cx.thrownAt = <<"B", "x">> THEN 1 ELSE 0)
          + Conflicts(cx.st, calls, i + 1)

\* Name x of B resolves to the export-star conflict sentinel.
ResolvesToStar == getterValue(entry, "B", "x").v = ERROR_STAR

Min(a, b) == IF a < b THEN a ELSE b

\* C6 as stated: when a name resolves to the export-star conflict sentinel on
\* a module that has importers of it, the conflict error for the name is
\* thrown exactly once over any sequence of later updateBindings calls on the
\* module, however many setters are registered for the name.
C6_ThrownOncePerName ==
  (graph = "reexport" /\ ResolvesToStar /\ entry["B"].setters["x"] # <<>>) =>
    \A calls \in [1..MaxCalls -> Calls] : Conflicts(entry, calls, 1) = 1

\* C6, amended: the conflict error for the name is thrown once for each setter
\* registered for it: every updateBindings call on the module for the name
\* throws it and drops one setter, until none is left; the calls after that
\* complete without throwing.
C6_ThrownOncePerSetter ==
  (graph = "reexport" /\ ResolvesToStar) =>
    \A call \in Calls :
      /\ Conflicts(entry, [i \in 1..MaxCalls |-> call], 1)
           = Min(MaxCalls, Len(entry["B"].setters["x"]))
      /\ LET cx == Outcome(call)
         IN IF entry["B"].setters["x"] = <<>> THEN cx.thrown = NoError
            ELSE /\ cx.thrown = ERR_EXPORT_STAR_CONFLICT
                 /\ Len(cx.st["B"].setters["x"]) = Len(entry["B"].setters["x"]) - 1

\* Both A and C import the conflicting name: the first two calls throw, the
\* third completes.
C6_Witness ==
  /\ graph = "reexport" /\ Linked /\ ResolvesToStar
  /\ Len(entry["B"].setters["x"]) = 2
  /\ LET call == <<"B", NamesList(<<"x">>), UPDATE_TYPE_DEFAULT>>
         first == Outcome(call)
         second == Again(first, call)
         third == Again(second, call)
     IN /\ first.thrown = ERR_EXPORT_STAR_CONFLICT
        /\ second.thrown = ERR_EXPORT_STAR_CONFLICT
        /\ third.thrown = NoError

\* The getter registered for name x of B throws when invoked.
GetterThrows ==
  /\ entry["B"].getters["x"] # NoGetter
  /\ callGetter(entry, entry["B"].getters["x"], GetterFuel).thrown # NoError

\* The setters of name n of B, after the call, have all observed the value.
AllObserved(cx, n, value) ==
  \A i \in 1..Len(cx.st["B"].setters[n]) : cx.st["B"].setters[n][i].last = value

\* C7: when the getter registered for a name throws, no updateBindings call
\* lets the exception escape: the name resolves to the error sentinel
\* ERROR_GETTER, every setter of the name that is invoked is handed undefined
\* instead of the sentinel, and the passes go on with the other setters and,
\* in a call for all names, with the other names.
C7_GetterThrowContained ==
  (graph = "reexport" /\ GetterThrows) =>
    \A call \in Calls :
      LET cx == Outcome(call)
      IN /\ cx.thrown = NoError
         /\ rawNamespaceGet(cx.st["B"], "B", "x") = ERROR_GETTER
         /\ AllObserved(cx, "x", ERROR_GETTER)
         /\ \A k \in 1..Len(cx.fired) :
              cx.fired[k].value = ERROR_GETTER => cx.fired[k].argument = Undefined
         /\ \A i \in 1..Len(entry["B"].setters["x"]) :
              LET setter == entry["B"].setters["x"][i]
              IN setter.last # ERROR_GETTER =>
                   /\ \E k \in 1..Len(cx.fired) :
                        /\ cx.fired[k].setter = setter
                        /\ cx.fired[k].argument = Undefined
                   /\ \A l \in setter.localNames : cx.st[setter.parent].locals[l] = Undefined
         /\ call[2] = NamesUndefined =>
              /\ AllObserved(cx, "default", getterValue(entry, "B", "default").v)
              /\ entry["B"].getters["default"] # NoGetter =>
                   rawNamespaceGet(cx.st["B"], "B", "default")
                     = getterValue(entry, "B", "default").v

\* The getter of x was registered before that of default and throws, A and C
\* hold a value of x; a call for all names hands undefined to both and goes
\* on to invoke the setter of default.
C7_Witness ==
  /\ graph = "reexport" /\ Linked /\ GetterThrows
  /\ entry["B"].getterKeys = <<"x", "default">>
  /\ entry["A"].locals["v"] = Val(1) /\ entry["C"].locals["v"] = Val(1)
  /\ LET cx == Outcome(<<"B", NamesUndefined, UPDATE_TYPE_LIVE>>)
     IN /\ cx.thrown = NoError
        /\ cx.st["A"].locals["v"] = Undefined /\ cx.st["C"].locals["v"] = Undefined
        /\ \E k \in 1..Len(cx.fired) : cx.fired[k].name = "default"

\* B re-exports x from D: its getter for x was made by addGetterFrom.
ReExportsX == entry["B"].getters["x"].owner = "D"

\* C9 as stated: when B re-exports x from D through addGetterFrom and D has
\* registered or replaced its getter for x, a resolution of x through B (the
\* getter pass and the setter pass of updateBindings) yields the value of the
\* getter currently registered in D's getter map.
C9_ResolvesCurrentGetter ==
  (graph = "reexport" /\ ReExportsX /\ entry["D"].getters["x"] # NoGetter) =>
    \A call \in Calls :
      LET cx == Outcome(call)
          current == getterValue(entry, "D", "x").v
      IN /\ rawNamespaceGet(cx.st["B"], "B", "x") = current
         /\ AllObserved(cx, "x", current)

-----------------------------------------------------------------------------
(* Properties of loading and of the namespace views (graph namespace: A    *)
(* imports B and re-exports its x as default).                             *)

Finalized(e) == entry[e]._namespaceFinalized = NAMESPACE_FINALIZATION_COMPLETED

\* C5 as stated: once the namespace of a record is finalized, every step
\* (registration, updateBindings, loaded, finalizeNamespace, and
\* defineProperty, deleteProperty and set on the views, from strict or sloppy
\* callers) leaves the set of own keys of each of its four views as it was.
C5_KeysConstantOnceFinalized ==
  [][\A e \in Viewed, view \in Views :
       Finalized(e) => ownKeys(entry'[e], view) = ownKeys(entry[e], view)]_vars

\* The getter of name `name` of e is absent or failing: it throws or yields
\* the error sentinel.
GetterFailing(e, name) ==
  LET called == callGetter(entry, entry[e].getters[name], GetterFuel)
  IN \/ entry[e].getters[name] = NoGetter
     \/ called.thrown # NoError
     \/ called.v = ERROR_GETTER

\* C8 as stated: on a finalized ESM record, reading through any view a key
\* present in the view throws ERR_UNDEFINED_IDENTIFIER and no other error
\* when the getter of the key is absent or failing, and returns the value the
\* record holds for the key when the getter exists and succeeds.
C8_ReadThrowsUndefinedIdentifier ==
  \A e \in Viewed, view \in Views, name \in Names :
    (entry[e].type = TYPE_ESM /\ Finalized(e) /\ rawHas(entry[e], view, name)) =>
      LET read == handlerGet(entry, e, view, name)
      IN IF GetterFailing(e, name) THEN read.thrown = ERR_UNDEFINED_IDENTIFIER
         ELSE read.thrown = NoError

Completed(st, e) == st[e]._loaded = LOAD_COMPLETED

\* C10 as stated: a record whose loaded state is completed has an executed
\* body and every one of its children is in loaded state completed.
C10_CompletedChildrenCompleted ==
  \A e \in Loaded[graph] :
    Completed(entry, e) =>
      /\ entry[e].moduleLoaded
      /\ \A i \in 1..Len(entry[e].children) : Completed(entry, entry[e].children[i])

\* C10, amended: a record whose loaded state is completed has an executed
\* body, and loaded() moves a record to completed only when the body of
\* every one of its children has executed (module.loaded of the child,
\* whatever the child's own loaded state).
C10_CompletedChildrenRan ==
  \A e \in Loaded[graph] :
    /\ Completed(entry, e) => entry[e].moduleLoaded
    /\ (~Completed(entry, e) /\ Completed(loaded(entry, e), e)) =>
         /\ entry[e].moduleLoaded
         /\ \A i \in 1..Len(entry[e].children) : entry[entry[e].children[i]].moduleLoaded

\* A.loaded() has completed A by the executed body of its child B, whose own
\* loaded() has not run.
C10_Witness ==
  /\ graph = "namespace"
  /\ Completed(entry, "A") /\ entry["A"].children = <<"B">>
  /\ entry["B"].moduleLoaded /\ ~Completed(entry, "B")

\* C11: the finalization state of a record never goes back from done to
\* pending; a record whose loaded state is completed is finalized, and
\* loaded() leaves the record it completes finalized; on a record whose loaded
\* state is completed loaded() changes no field of any record, and on a
\* finalized record finalizeNamespace() changes none: the views are not
\* populated again.
C11_FinalizedOnce ==
  [][\A e \in Loaded[graph] :
       /\ Finalized(e) => entry'[e]._namespaceFinalized = NAMESPACE_FINALIZATION_COMPLETED
       /\ Completed(entry, e) => Finalized(e)
       /\ Completed(loaded(entry, e), e) => alreadyFinalized(loaded(entry, e)[e])
       /\ Completed(entry, e) => loaded(entry, e) = entry
       /\ Finalized(e) => finalizeNamespace(entry, e) = entry]_vars

\* A was finalized by its loaded() and has since registered an export its
\* complete views do not list: a second finalization would add the key.
C11_Witness ==
  /\ graph = "namespace"
  /\ Completed(entry, "A") /\ Finalized("A")
  /\ namespaceKeys(entry["A"]) # ownKeys(entry["A"], Complete)
  /\ finalizeNamespace(entry, "A") = entry

-----------------------------------------------------------------------------
(* Properties of resumeChildren (graph resume: A imports from its children *)
(* B and C).                                                               *)

\* What a call of resumeChildren on A does to child c, in order.
DoneTo(log, c) ==
  LET OfChild(ev) == ev.entry = c
  IN SelectSeq(log, OfChild)

\* The child has not started and its body is suspended.
Suspended(en) == en.runtime = "runResult" /\ en.state = STATE_INITIAL

\* C12: resumeChildren skips a child that is running and leaves its record as
\* it was.  To every other child it applies the publication step: the finalize
\* hook alone when one is registered, and otherwise loaded() followed by
\* updateBindings(null, init).  A child that has not started and whose body is
\* suspended has its body resumed first, marked running and started while the
\* body runs; when the publication step begins its module-loaded flag is true,
\* its running flag false and its execution state completed.
C12_ResumeThenPublish ==
  graph = "resume" =>
    \A effect \in BodySteps :
      LET r == resumeChildren(entry, "A", effect)
      IN \A i \in 1..Len(entry["A"].children) :
           LET c == entry["A"].children[i]
               en == entry[c]
               did == DoneTo(r.log, c)
               steps == [k \in 1..Len(did) |-> did[k].ev]
               publication == IF en._finalize THEN <<"_finalize">>
                              ELSE <<"loaded", "updateBindings">>
           IN r.thrown = NoError =>
                IF en.running THEN did = <<>> /\ r.st[c] = en
                ELSE IF Suspended(en)
                THEN /\ steps = <<"next">> \o publication
                     /\ did[1].running /\ did[1].state = STATE_EXECUTION_STARTED
                     /\ did[2].moduleLoaded /\ ~did[2].running
                     /\ did[2].state = STATE_EXECUTION_COMPLETED
                ELSE steps = publication

\* A has children B, whose body the loader is running, and C, whose body is
\* suspended and which has no finalize hook: A.resumeChildren() skips B,
\* resumes C, whose body assigns its variable, and C publishes the value to A.
C12_Witness ==
  /\ graph = "resume" /\ Linked
  /\ entry["A"].children = <<"B", "C">>
  /\ entry["B"].running
  /\ Suspended(entry["C"]) /\ ~entry["C"]._finalize /\ ~entry["C"].running
  /\ LET r == resumeChildren(entry, "A", "assign")
     IN /\ r.thrown = NoError
        /\ r.st["B"] = entry["B"]
        /\ r.st["C"]._loaded = LOAD_COMPLETED
        /\ r.st["A"].locals["u"] = Val(1)

-----------------------------------------------------------------------------
(* Properties of the mutable namespace views (graph mutable: B and C       *)
(* import from A).                                                         *)

\* The mutable views and the names present in them.
MutableViews == {CompleteMutable, PartialMutable}
Present(view, name) == rawHas(entry["A"], view, name)

\* The trap returned true.
Succeeded(r) == r.thrown = NoError /\ r.v = TRUE

\* The getter of the name was registered again and updateBindings ran for the
\* name: every setter registered for it has observed the value the name
\* resolves to, and the variables of every importer whose setter had observed
\* another value hold it.
Republished(r, name) ==
  LET value == getterValue(r.st, "A", name).v
  IN /\ r.st["A"].getters[name] = addGetter(entry, "A", name, NamespaceGetter("A", name))["A"].getters[name]
     /\ Len(r.st["A"].setters[name]) = Len(entry["A"].setters[name])
     /\ \A i \in 1..Len(r.st["A"].setters[name]) :
          LET setter == r.st["A"].setters[name][i]
          IN /\ setter.last = value
             /\ entry["A"].setters[name][i].last # value =>
                  \A l \in setter.localNames : r.st[setter.parent].locals[l] = setterValue(value)

C14_PendingWritesRejected ==
  (graph = "mutable" /\ ~Finalized("A")) =>
    \A view \in MutableViews, name \in Names, v \in WrittenValues :
      /\ LET r == mutableDefineProperty(entry, "A", view, name, DataDescriptor(v))
         IN r.v = FALSE /\ r.thrown = NoError /\ r.st = entry
      /\ LET r == mutableDeleteProperty(entry, "A", view, name)
         IN r.v = FALSE /\ r.thrown = NoError /\ r.st = entry
      /\ LET r == mutableSet(entry, "A", view, name, v)
         IN r.v = FALSE /\ r.thrown = NoError /\ r.st = entry

-----------------------------------------------------------------------------
(* Properties of the readonly namespace views (graph namespace).           *)

ReadonlyViews == {Complete, Partial}

\* What a rejected write does: from a strict caller it throws the error, from
\* a sloppy caller it returns false; it changes no record.
Rejected(r, strict, error) ==
  /\ r.st = entry
  /\ IF strict THEN r.thrown = error ELSE r.thrown = NoError /\ r.v = FALSE

\* C15 as stated: on a finalized readonly view every assignment, every
\* definition of an absent key and every deletion of a present key is
\* rejected: a strict caller gets the matching error, a sloppy caller false,
\* and the keys of the view, the raw exported object, the getters and the
\* importers' bindings stay as they were.
C15_ReadonlyWritesRejected ==
  \A e \in Viewed, view \in ReadonlyViews, name \in Names, strict \in BOOLEAN :
    Finalized(e) =>
      /\ Rejected(immutableSet(entry, e, view, name, strict), strict,
                  IF rawHas(entry[e], view, name) THEN ERR_NS_ASSIGNMENT ELSE ERR_NS_EXTENSION)
      /\ ~rawHas(entry[e], view, name) =>
           \A descriptor \in Descriptors :
             Rejected(immutableDefineProperty(entry, e, view, name, descriptor, strict),
                      strict, ERR_NS_DEFINITION)
      /\ rawHas(entry[e], view, name) =>
           Rejected(immutableDeleteProperty(entry, e, view, name, strict),
                    strict, ERR_NS_DELETION)

\* C16 as stated: on a finalized readonly view a defineProperty from a strict
\* caller on a present key, with a descriptor that has writable: false and no
\* value, is accepted without throwing and changes nothing; every other
\* definition from a strict caller throws ERR_NS_REDEFINITION (present key) or
\* ERR_NS_DEFINITION (absent key).
C16_StrictDefinitionThrows ==
  \A e \in Viewed, view \in ReadonlyViews, name \in Names,
     descriptor \in Descriptors \cup {ReadOnlyDescriptor} :
    Finalized(e) =>
      LET r == immutableDefineProperty(entry, e, view, name, descriptor, TRUE)
          present == rawHas(entry[e], view, name)
      IN IF present /\ descriptor = ReadOnlyDescriptor
         THEN r.thrown = NoError /\ r.st = entry
         ELSE r.thrown = (IF present THEN ERR_NS_REDEFINITION ELSE ERR_NS_DEFINITION)

(***************************************************************************)
(* Resolution of an import (getExportByName, getExportByNameFast), on the  *)
(* exporter A and its importer B of the interop graph.                     *)
(***************************************************************************)

\* The importer has named exports from dynamic modules enabled; an .mjs
\* importer never has.
NamedExports(en) == en.extname # ".mjs" /\ en.cjs.namedExports

\* The records of the setters of `name` on A that the call invoked.
FiredFor(cx, name) ==
  {i \in 1..Len(cx.fired) : cx.fired[i].entry = "A" /\ cx.fired[i].name = name}

\* What the getter of `name` registered on A gives, the error sentinel when
\* there is none.
ThroughGetter(name) ==
  IF entry["A"].getters[name] = NoGetter THEN ERROR_GETTER
  ELSE tryGetter(entry, entry["A"].getters[name]).v

\* C17: whenever an updateBindings on the exporter invokes a setter of the
\* name `default`: if the exporter is not an ES module and the importer has
\* not named exports enabled, the value resolved and handed to the setter is
\* the exporter's whole exports object, whatever getter of `default` is
\* registered; if the exporter is an ES module, the value resolved is what
\* its getter of `default` gives, whatever the importer's configuration, and
\* the error sentinel when it has no getter of `default`.
C17_DefaultResolution ==
  graph = "interop" =>
    \A call \in Calls :
      LET cx == Outcome(call)
      IN \A i \in FiredFor(cx, "default") :
           LET f == cx.fired[i]
               parent == entry[f.setter.parent]
           IN /\ (entry["A"].type # TYPE_ESM /\ ~NamedExports(parent)) =>
                   /\ f.value = exportsValue(entry["A"], "A")
                   /\ f.argument = exportsValue(entry["A"], "A")
              /\ entry["A"].type = TYPE_ESM =>
                   /\ f.value = ThroughGetter("default")
                   /\ (entry["A"].getters["default"] = NoGetter => f.value = ERROR_GETTER)

\* A loaded CommonJS exporter marked __esModule, with a getter of `default`
\* registered, whose importer has not named exports enabled: the setter of
\* `default` is handed the exports object, not what the getter gives.
C17_Witness ==
  /\ graph = "interop" /\ Linked
  /\ entry["A"].type = TYPE_PSEUDO /\ entry["A"].getters["default"] # NoGetter
  /\ entry["A"].exports["default"] = Val(1)
  /\ ~NamedExports(entry["B"])
  /\ \E call \in Calls :
       LET cx == Outcome(call)
       IN \E i \in FiredFor(cx, "default") :
            /\ cx.fired[i].argument = exportsValue(entry["A"], "A")
            /\ cx.fired[i].argument # ThroughGetter("default")

\* The importer may be given a mutable view of the exporter: it is not an
\* .mjs module, its configuration enables mutableNamespace and the exporter is
\* not an .mjs module.
MutableFor(parent) ==
  parent.extname # ".mjs" /\ parent.cjs.mutableNamespace /\ entry["A"].extname # ".mjs"

\* The view of A that is complete or partial, mutable or readonly.
ViewOf(partial, mutable) ==
  ObjectOf(IF partial THEN (IF mutable THEN "partialMutableNamespace" ELSE "partialNamespace")
           ELSE (IF mutable THEN "completeMutableNamespace" ELSE "completeNamespace"), "A")

ModuleExports(en, e) ==
  IF en.moduleExports = Absent THEN ObjectOf("exports", e) ELSE en.moduleExports

\* The call loaded() from the current records is the one by which A first
\* becomes loaded, with interop enabled and an extension other than .mjs.
FirstLoaded ==
  /\ entry["A"]._loaded = LOAD_INCOMPLETE
  /\ loaded(entry, "A")["A"]._loaded = LOAD_COMPLETED
  /\ entry["A"].cjs.interop /\ entry["A"].extname # ".mjs"

\* What loaded() leaves as module.exports of A: the value of its property
\* `default` when `default` is the only name it exports, the raw exported
\* object otherwise.
Collapsed ==
  LET after == loaded(entry, "A")["A"]
  IN IF exportsKeys(entry["A"]) = {"default"}
     THEN ModuleExports(after, "A") = entry["A"].exports["default"]
     ELSE ModuleExports(after, "A") = ObjectOf("exports", "A")

\* C19 as stated: when a CommonJS module, with interop enabled and an
\* extension other than .mjs, first becomes loaded, module.exports is the
\* value of its export `default` if that is the only name it exports, and
\* is left as it was if it exports any other name.
C19_DynamicCollapse ==
  (graph = "interop" /\ entry["A"].type = TYPE_CJS /\ FirstLoaded) => Collapsed

\* C19, amended: when an ES module, with interop enabled and an extension
\* other than .mjs, first becomes loaded, module.exports is the value of its
\* export `default` if that is the only name it exports, and is left as it
\* was if it exports any other name.
C19_DeclarativeCollapse ==
  (graph = "interop" /\ entry["A"].type = TYPE_ESM /\ FirstLoaded) => Collapsed

\* An ES module that exports `default` alone, with the value 1, about to
\* become loaded: loaded() makes module.exports that value.
C19_Witness ==
  /\ graph = "interop" /\ entry["A"].type = TYPE_ESM /\ FirstLoaded
  /\ exportsKeys(entry["A"]) = {"default"} /\ entry["A"].exports["default"] = Val(1)
  /\ ModuleExports(loaded(entry, "A")["A"], "A") = Val(1)

(***************************************************************************)
(* The import of a file without extension (test/cjs/ext/no-ext.mjs).       *)
(***************************************************************************)

\* The import of the test: from an .mjs module, of a file without extension
\* that holds ES module source.
NoExtensionImport ==
  /\ graph = "import"
  /\ entry["B"].extname = ".mjs" /\ entry["A"].extname = "" /\ entry["A"].type = TYPE_ESM

NullNamesAndSeen(r) == r.names = NamesNull /\ r.from.entry \in r.seen

\* C21 as stated: every call updateBindings makes on a parent has the update
\* type live, whatever the update type of the call that makes it, is given
\* null as names, and is given a seen set that holds the record of the call
\* that makes it.
C21_ParentsAlwaysLive ==
  \A call \in Calls :
    LET cx == Outcome(call)
    IN \A i \in 1..Len(cx.recursive) :
         cx.recursive[i].updateType = UPDATE_TYPE_LIVE /\ NullNamesAndSeen(cx.recursive[i])

\* C21, amended: every call updateBindings makes on a parent has the update
\* type live when the call that makes it has the update type init or live,
\* and the update type default when the call that makes it has the update
\* type default (a call on a circular record); it is given null as names and
\* a seen set that holds the record of the call that makes it.
C21_ParentsEscalated ==
  \A call \in Calls :
    LET cx == Outcome(call)
    IN \A i \in 1..Len(cx.recursive) :
         LET r == cx.recursive[i]
         IN /\ r.from.updateType \in {UPDATE_TYPE_INIT, UPDATE_TYPE_LIVE} =>
                 r.updateType = UPDATE_TYPE_LIVE
            /\ r.from.updateType = UPDATE_TYPE_DEFAULT =>
                 (r.updateType = UPDATE_TYPE_DEFAULT /\ entry[r.from.entry].circular)
            /\ NullNamesAndSeen(r)

\* The diamond wired, its source D circular: a default update of D calls its
\* parents with the update type default, an init update with live.
C21_Witness ==
  /\ graph = "diamond" /\ Linked /\ entry["D"].circular
  /\ LET cx == Outcome(<<"D", NamesUndefined, UPDATE_TYPE_DEFAULT>>)
     IN \E i \in 1..Len(cx.recursive) :
          cx.recursive[i].from = Caller("D", UPDATE_TYPE_DEFAULT)
            /\ cx.recursive[i].updateType = UPDATE_TYPE_DEFAULT
  /\ LET cx == Outcome(<<"D", NamesUndefined, UPDATE_TYPE_INIT>>)
     IN \E i \in 1..Len(cx.recursive) :
          cx.recursive[i].from = Caller("D", UPDATE_TYPE_INIT)
            /\ cx.recursive[i].updateType = UPDATE_TYPE_LIVE

(***************************************************************************)
(* The order of the passes of updateBindings and of the setters of a name, *)
(* on the module A with its static and dynamic importers.                  *)
(***************************************************************************)

\* The setter callbacks a call tree invoked for the name x of A.
FiredForX(cx) == {i \in 1..Len(cx.fired) : cx.fired[i].entry = "A" /\ cx.fired[i].name = "x"}

\* When the callback f was invoked, the getter of every name of its record
\* had been run: the namespace held what each getter gives.
GettersRan(f) ==
  \A name \in Names :
    f.st[f.entry].getters[name] # NoGetter =>
      rawNamespaceGet(f.st[f.entry], f.entry, name) =
        tryGetter(f.st, f.st[f.entry].getters[name]).v

\* When the callback f was invoked, the last call of updateBindings to have
\* started was the one on its own record: no parent had been re-entered.
NoParentReentered(cx, f) ==
  /\ f.at \in 1..Len(cx.trace)
  /\ cx.trace[f.at].ev = "run" /\ cx.trace[f.at].entry = f.entry

\* The callbacks were invoked from the last registered setter to the first,
\* each being the setter registered at its index, none twice.
ReverseOrder(cx) ==
  \A i, j \in FiredForX(cx) :
    /\ cx.fired[i].setter = entry["A"].setters["x"][cx.fired[i].index]
    /\ (i < j => cx.fired[i].index > cx.fired[j].index)

\* Every setter registered for x that is due in the call was invoked, whatever
\* setters the pass removed: on an init update all of them, on any update of
\* a loaded record those of dynamic imports.
NoneSkipped(cx, updateType) ==
  \A k \in 1..Len(entry["A"].setters["x"]) :
    (\/ updateType = UPDATE_TYPE_INIT
     \/ (entry["A"]._loaded = LOAD_COMPLETED
           /\ entry["A"].setters["x"][k].type = SETTER_TYPE_DYNAMIC_IMPORT)) =>
      \E i \in FiredForX(cx) : cx.fired[i].index = k

Delivered(cx, p, l) ==
  \E i \in 1..Len(cx.fired) :
    /\ cx.fired[i].setter.parent = p /\ l \in cx.fired[i].setter.localNames
    /\ cx.fired[i].value # ERROR_GETTER

\* The setters registered anywhere that belong to p and carry l.
Carrying(p, l) ==
  {s \in UNION {{entry[e].setters[n][i] : i \in 1..Len(entry[e].setters[n])} :
                   e \in Mods, n \in SetterNames} :
     s.parent = p /\ l \in s.localNames}

\* What the next registration of the link order leaves in importedBindings
\* of p for l: false if it registers a setter of p carrying l and there was
\* no entry, the entry as it was otherwise.
AfterRegistration(p, l) ==
  LET d == LinkSteps[graph][wired + 1]
  IN IF d.op = "addSetter" /\ d.parent = p /\ l \in d.localNames
        /\ entry[p].importedBindings[l] = "none"
     THEN "false" ELSE entry[p].importedBindings[l]

\* C23: for every importer p and local name l, importedBindings[l] of p has
\* no entry while no setter of p carrying l is registered, is made false by
\* the first registration and left as it is by every later one, and is true
\* after an updateBindings call exactly when it was true before or the call
\* invoked a setter of p carrying l with a value other than the error
\* sentinel; while it is false every registered setter of p carrying l has
\* observed nothing or the error sentinel.
C23_ImportedBindings ==
  graph = "diamond" =>
    /\ \A p \in Mods, l \in LocalNames :
         /\ entry[p].importedBindings[l] = "none" => Carrying(p, l) = {}
         /\ entry[p].importedBindings[l] = "false" =>
              \A s \in Carrying(p, l) : s.last \in {INITIAL_VALUE, ERROR_GETTER}
         /\ wired < Len(LinkSteps[graph]) =>
              LET d == LinkSteps[graph][wired + 1]
              IN d.op = "addSetter" =>
                   \A type \in d.types, result \in d.results :
                     addSetter(entry, d.entry, d.name, d.localNames,
                               SetterFunction(type, result), d.parent)[p].importedBindings[l]
                       = AfterRegistration(p, l)
    /\ \A call \in Calls :
         LET cx == Outcome(call)
         IN \A p \in Mods, l \in LocalNames :
              cx.st[p].importedBindings[l] =
                IF entry[p].importedBindings[l] = "true" \/ Delivered(cx, p, l)
                THEN "true" ELSE entry[p].importedBindings[l]

\* The import of x by B from D has been delivered the error sentinel, D had
\* no getter of x; D has one now, and an update of D delivers its value:
\* importedBindings.v of B was false and becomes true.
C23_Witness ==
  /\ graph = "diamond" /\ Linked
  /\ entry["B"].importedBindings["v"] = "false"
  /\ \E s \in Carrying("B", "v") : s.last = ERROR_GETTER
  /\ entry["D"].getters["x"] # NoGetter
  /\ LET cx == Outcome(<<"D", NamesUndefined, UPDATE_TYPE_DEFAULT>>)
     IN Delivered(cx, "B", "v") /\ cx.st["B"].importedBindings["v"] = "true"

(***************************************************************************)
(* The setters of dynamic imports (runSetter, lines 1125-1152), on the     *)
(* module A with its static and dynamic importers.                         *)
(***************************************************************************)

\* The update types of the calls a body or a parent's propagation makes once
\* the module is initialised.
Later == {UPDATE_TYPE_DEFAULT, UPDATE_TYPE_LIVE}

\* A setter is told from the others by its importer and local names.
Ident(s) == <<s.parent, s.localNames>>
IdentSeq(seq) == [i \in 1..Len(seq) |-> Ident(seq[i])]

\* The setters of dynamic imports registered for x among the records st.
DynamicSetters(st) ==
  {s \in {st["A"].setters["x"][i] : i \in 1..Len(st["A"].setters["x"])} :
     s.type = SETTER_TYPE_DYNAMIC_IMPORT}

\* The call tree invoked the setter s.
InvokedIn(cx, s) ==
  \E i \in FiredForX(cx) : Ident(cx.fired[i].setter) = Ident(s)

\* A setter that the pass of a loaded record does not remove.
Stays(s) == ~(s.type = SETTER_TYPE_DYNAMIC_IMPORT /\ s.result)

\* C24 as stated: in a default or live update of A no setter of a dynamic
\* import is invoked while A is not loaded, and a setter of a dynamic import
\* that a default or live update of the loaded A invoked is invoked by no
\* later default or live update.
C24_FiresOnce ==
  graph = "dynamic" =>
    \A call \in Calls :
      call[3] \in Later =>
        LET cx == Outcome(call)
        IN \A s \in DynamicSetters(entry) :
             /\ entry["A"]._loaded # LOAD_COMPLETED => ~InvokedIn(cx, s)
             /\ (entry["A"]._loaded = LOAD_COMPLETED /\ InvokedIn(cx, s)) =>
                  \A type \in Later : ~InvokedIn(Again(cx, <<"A", call[2], type>>), s)

\* C24, amended: in a default or live update of A no setter of a dynamic
\* import is invoked while A is not loaded; every default or live update of
\* the loaded A invokes every registered setter of a dynamic import: one
\* whose callback reports success is removed from the list in that pass and
\* invoked by no later update, one whose callback does not report success
\* stays registered and is invoked again by the next update; the other
\* setters of the name stay registered, in their order.
C24_FiresUntilSuccess ==
  graph = "dynamic" =>
    \A call \in Calls :
      call[3] \in Later =>
        LET cx == Outcome(call)
            isLoaded == entry["A"]._loaded = LOAD_COMPLETED
        IN /\ \A s \in DynamicSetters(entry) :
                /\ InvokedIn(cx, s) <=> isLoaded
                /\ isLoaded =>
                     \A type \in Later :
                       InvokedIn(Again(cx, <<"A", call[2], type>>), s) <=> ~s.result
           /\ IdentSeq(cx.st["A"].setters["x"]) =
                IF isLoaded THEN IdentSeq(SelectSeq(entry["A"].setters["x"], Stays))
                ELSE IdentSeq(entry["A"].setters["x"])

\* A loaded with its four setters registered, the callback of the dynamic
\* import of C reporting success and that of D not: a default update
\* invokes both and removes the setter of C alone; the next invokes the
\* setter of D again.
C24_Witness ==
  /\ graph = "dynamic" /\ Linked /\ entry["A"]._loaded = LOAD_COMPLETED
  /\ Len(entry["A"].setters["x"]) = 4
  /\ entry["A"].setters["x"][2].result /\ ~entry["A"].setters["x"][3].result
  /\ LET cx == Outcome(<<"A", NamesUndefined, UPDATE_TYPE_DEFAULT>>)
         again == Again(cx, <<"A", NamesUndefined, UPDATE_TYPE_DEFAULT>>)
     IN /\ InvokedIn(cx, entry["A"].setters["x"][2])
        /\ InvokedIn(cx, entry["A"].setters["x"][3])
        /\ IdentSeq(cx.st["A"].setters["x"]) = <<<<"B", {"w"}>>, <<"D", {"u"}>>, <<"B", {"v"}>>>>
        /\ ~InvokedIn(again, entry["A"].setters["x"][2])
        /\ InvokedIn(again, entry["A"].setters["x"][3])

(***************************************************************************)
(* updateBindings without names on a CommonJS module (runGetters,          *)
(* assignExportsToNamespace), on the namespace graph.                      *)
(***************************************************************************)

\* C25 as stated: when updateBindings is called with undefined or null as
\* names on a module that is not an ES module, whose body has finished and
\* whose exports is an object, the call throws nothing and leaves a getter
\* registered for every name the exports object has.
C25_OmittedNamesRun ==
  (/\ graph = "namespace"
   /\ entry["A"].type \in {TYPE_CJS, TYPE_PSEUDO}
   /\ entry["A"].moduleLoaded /\ entry["A"].exportsObject) =>
    \A call \in Calls :
      call[2] \in {NamesUndefined, NamesNull} =>
        LET cx == Outcome(call)
        IN /\ cx.thrown = NoError
           /\ \A name \in exportsKeys(entry["A"]) : cx.st["A"].getters[name] # NoGetter

(***************************************************************************)
(* The resumption of suspended bodies (resumeChildren, lines 570-591), by  *)
(* the parents A and D, while bodies run.                                  *)
(***************************************************************************)

\* How many times a resumeChildren call, with the calls made while it runs,
\* advanced the suspended body of c.
Advanced(log, c) ==
  LET NextOfChild(ev) == ev.entry = c /\ ev.ev = "next"
  IN Len(SelectSeq(log, NextOfChild))

\* C26: whichever parent calls resumeChildren, and whichever parent's
\* resumeChildren the resumed body of a child calls while it runs, the call
\* advances the suspended body of a child at most once, and not at all when
\* the child has started or completed its execution; the execution state of
\* no record decreases, and a child whose body was advanced is completed.
C26_AdvancedOnce ==
  graph = "reenter" =>
    \A e \in Parents, effect \in ReentrantSteps :
      LET r == resumeChildren(entry, e, effect)
      IN \A c \in Mods :
           /\ Advanced(r.log, c) <= 1
           /\ entry[c].state # STATE_INITIAL => Advanced(r.log, c) = 0
           /\ r.st[c].state >= entry[c].state
           /\ Advanced(r.log, c) = 1 => r.st[c].state = STATE_EXECUTION_COMPLETED

\* B and C are children of A, C of D too, both suspended: A resumes B, whose
\* body makes D call resumeChildren, which resumes C; back in the loop of A
\* the body of C is not advanced again.
C26_Witness ==
  /\ graph = "reenter"
  /\ entry["A"].children = <<"B", "C">> /\ entry["D"].children = <<"C">>
  /\ Suspended(entry["B"]) /\ Suspended(entry["C"])
  /\ ~entry["B"].running /\ ~entry["C"].running
  /\ LET r == resumeChildren(entry, "A", "D")
     IN /\ Advanced(r.log, "B") = 1 /\ Advanced(r.log, "C") = 1
        /\ Len(DoneTo(r.log, "C")) > 3
        /\ r.st["B"].state = STATE_EXECUTION_COMPLETED
        /\ r.st["C"].state = STATE_EXECUTION_COMPLETED

====
